---- MODULE Spec2Model ----
(***************************************************************************)
(* Model of the request pipeline of the AI proxy:                          *)
(*   RequestHandler.handle_request   (app/core/request_handler.py)         *)
(*   RateLimiter.check_rate_limits   (app/core/rate_limiter.py)            *)
(*   BillingSystem                   (app/core/billing.py)                 *)
(*   ModelManager                    (app/models/model_manager.py)         *)
(*                                                                         *)
(* Handlers are coroutines; an action is the code one handler runs between *)
(* two suspension points (an await on Redis, MongoDB, the provider or the  *)
(* retry sleep).  Money is counted in millionths of a currency unit, so a  *)
(* price per 1,000,000 tokens times a token count is an integer; parameter *)
(* numbers are counted in tenths.  Wall-clock time is counted in seconds.  *)
(***************************************************************************)
EXTENDS Integers, Sequences, FiniteSets, TLC

(* ------------------------------ bounds -------------------------------- *)
\* number of handler coroutines that can be in flight at once
NumHandlers == 2
\* top-level handle_request calls and clock advances in one behaviour, per
\* workload (see Workloads)
RaceRequests == 2
QuotaRequests == 4
QuotaTicks == 1
MixedRequests == 2
FallbackRequests == 1
RetiredRequests == 1
PairRequests == 2

Handlers == 1..NumHandlers

(* ------------------------------- state --------------------------------- *)
VARIABLES
  balance,        \* db.api_keys: api_key -> balance, in millionths
  transactions,   \* db.transactions, in insertion order
  requests,       \* db.requests (the request log), in insertion order
  redis,          \* the counter store: key -> [value, expires_at]
  now,            \* the wall clock, in seconds
  frame,          \* per handler: the position and locals of handle_request
  window_log,     \* history: per wall-clock bucket, the increments and the admissions
  next_rid,       \* history: number of handle_request calls started
  ticks,          \* history: number of clock advances
  workload        \* the callers of this behaviour

vars == <<balance, transactions, requests, redis, now, frame, window_log, next_rid, ticks, workload>>

(* --------------------------- the calendar ----------------------------- *)
SecondsPerMinute == 60
SecondsPerDay == 86400
\* the behaviour starts at 00:00:00 on the first day of a 31-day month
DaysInMonth == 31

\* now.minute, now.date(), (now.year, now.month): the parts of datetime.now()
\* that check_rate_limits puts into its keys
MinuteOfHour(t) == (t \div SecondsPerMinute) % 60
DateOf(t) == t \div SecondsPerDay
MonthOf(t) == IF DateOf(t) < DaysInMonth THEN 0 ELSE 1
\* the wall-clock minute a time lies in (minute-of-hour plus the hour)
MinuteBucket(t) == t \div SecondsPerMinute

\* TTLs set by check_rate_limits
MinuteTTL == 60
DayTTL == 86400
MonthTTL == 2592000

\* the clock advances by a minute, a day, or thirty days
TickSteps == {SecondsPerMinute, SecondsPerDay, MonthTTL}

(* ------------------------- request parameters ------------------------- *)
\* A parameter value of the request dict.  t is the Python type:
\*   "null" None, "num" a float or int (n, in tenths), "numstr" a string that
\*   float() parses (n, in tenths), "str" another string (s), "dict" a dict.
Null == [t |-> "null", n |-> 0, s |-> ""]
Num(x) == [t |-> "num", n |-> x, s |-> ""]
NumStr(x) == [t |-> "numstr", n |-> x, s |-> ""]
Str(x) == [t |-> "str", n |-> 0, s |-> x]
Dict(x) == [t |-> "dict", n |-> 0, s |-> x]

ParamNames == {"temperature", "max_tokens", "response_format"}

(* ------------------------ the model catalogue ------------------------- *)
\* Prices are per 1,000,000 tokens, image_input_price is per image (in
\* millionths).
NoParam == [type |-> "none", min |-> 0, max |-> 0, values |-> {}, default |-> Null]
FloatParam(lo, hi, d) == [type |-> "float", min |-> lo, max |-> hi, values |-> {}, default |-> Num(d)]
IntParam(lo, hi, d) == [type |-> "int", min |-> lo, max |-> hi, values |-> {}, default |-> Num(d)]
EnumParam(vs, d) == [type |-> "enum", min |-> 0, max |-> 0, values |-> vs, default |-> Str(d)]

\* The capabilities field of a model record.  The seeded records hold an
\* embedded document {"text": true, ...}; a record inserted by an operator
\* may hold the array ["text", ...] that find_lower_tier_model queries for.
\* For an array, a key is TRUE when the array contains it.
CapabilityKeys == {"text", "image", "reply_mode"}
AllCapabilities == [kind |-> "document", text |-> TRUE, image |-> TRUE, reply_mode |-> TRUE]
ArrayCapabilities == [kind |-> "array", text |-> TRUE, image |-> TRUE, reply_mode |-> TRUE]

\* the records ModelManager._init_default_models inserts into an empty
\* db.models
default_configs ==
  << [model_id |-> "gpt-4o", provider |-> "openai", capabilities |-> AllCapabilities,
      pricing |-> [input_price |-> 15, output_price |-> 50, image_input_price |-> 7650],
      capability_level |-> 3, max_tokens |-> 128000,
      parameters |-> [temperature |-> FloatParam(0, 20, 10),
                      max_tokens |-> IntParam(10, 40960, 20480),
                      response_format |-> EnumParam({"text", "json_object"}, "text")],
      status |-> "active"],
     [model_id |-> "claude-3.5-sonnet", provider |-> "anthropic", capabilities |-> AllCapabilities,
      pricing |-> [input_price |-> 15, output_price |-> 50, image_input_price |-> 7650],
      capability_level |-> 3, max_tokens |-> 128000,
      parameters |-> [temperature |-> FloatParam(0, 20, 10),
                      max_tokens |-> IntParam(10, 40960, 20480),
                      response_format |-> NoParam],
      status |-> "active"],
     [model_id |-> "grok-vision-beta", provider |-> "xai", capabilities |-> AllCapabilities,
      pricing |-> [input_price |-> 5, output_price |-> 5, image_input_price |-> 15000000],
      capability_level |-> 1, max_tokens |-> 8192,
      parameters |-> [temperature |-> FloatParam(0, 20, 10),
                      max_tokens |-> IntParam(10, 81920, 20480),
                      response_format |-> NoParam],
      status |-> "active"],
     [model_id |-> "grok-2-vision-1212", provider |-> "xai", capabilities |-> AllCapabilities,
      pricing |-> [input_price |-> 2, output_price |-> 2, image_input_price |-> 10000000],
      capability_level |-> 1, max_tokens |-> 32768,
      parameters |-> [temperature |-> FloatParam(0, 20, 10),
                      max_tokens |-> IntParam(10, 327680, 20480),
                      response_format |-> NoParam],
      status |-> "active"] >>

\* A db.models that an operator has filled before the first start (the seeds
\* are inserted only into an empty collection): gpt-4o as seeded, and two
\* cheaper tiers whose capabilities are stored as arrays.
TieredModels ==
  << default_configs[1],
     [model_id |-> "gpt-4o-mini", provider |-> "openai", capabilities |-> ArrayCapabilities,
      pricing |-> [input_price |-> 1, output_price |-> 2, image_input_price |-> 0],
      capability_level |-> 2, max_tokens |-> 16384,
      parameters |-> default_configs[1].parameters,
      status |-> "active"],
     [default_configs[4] EXCEPT !.capabilities = ArrayCapabilities] >>

\* the seeded db.models after grok-2-vision-1212 has been set to status
\* "inactive"
RetiredModels ==
  [i \in 1..Len(default_configs) |->
     IF default_configs[i].model_id = "grok-2-vision-1212"
     THEN [default_configs[i] EXCEPT !.status = "inactive"]
     ELSE default_configs[i]]

\* db.models; only the admin route writes it
Models == workload.models

NoModel == [model_id |-> "", provider |-> "",
            capabilities |-> [kind |-> "document", text |-> FALSE, image |-> FALSE, reply_mode |-> FALSE],
            pricing |-> [input_price |-> 0, output_price |-> 0, image_input_price |-> 0],
            capability_level |-> 0, max_tokens |-> 0,
            parameters |-> [temperature |-> NoParam, max_tokens |-> NoParam, response_format |-> NoParam],
            status |-> "none"]

\* db.models.find_one({"model_id": model_id}); NoModel stands for None
get_model_config(model_id) ==
  IF \E i \in 1..Len(Models) : Models[i].model_id = model_id
  THEN Models[CHOOSE i \in 1..Len(Models) : Models[i].model_id = model_id]
  ELSE NoModel

\* MongoDB's {field: {"$all": values}}: every listed value must equal the
\* field's value (or an element of it when the field is an array), and an
\* empty list matches nothing.  The listed values are key strings, so they
\* never equal a capabilities field that is an embedded document.
MongoAll(field_is_array, field_elems, values) ==
  /\ values # {}
  /\ \A v \in values : field_is_array /\ v \in field_elems

\* [k for k, v in capabilities.items() if v]
TrueKeys(capabilities) == {k \in CapabilityKeys : capabilities[k]}

\* db.models.find_one({capability_level: {$lt: current_level}, capabilities:
\* {$all: [...]}, status: "active"}, sort=[("capability_level", -1)])
find_lower_tier_model(current_level, capabilities) ==
  LET match == {i \in 1..Len(Models) :
                  /\ Models[i].capability_level < current_level
                  /\ MongoAll(Models[i].capabilities.kind = "array",
                              TrueKeys(Models[i].capabilities), TrueKeys(capabilities))
                  /\ Models[i].status = "active"}
  IN IF match = {} THEN NoModel
     ELSE Models[CHOOSE i \in match :
                   \A j \in match : \/ Models[j].capability_level < Models[i].capability_level
                                    \/ (Models[j].capability_level = Models[i].capability_level /\ i <= j)]

(* --------------------------- the credentials --------------------------- *)
\* db.api_keys; the balance is the mutable part and is the variable balance
ApiKeys ==
  [ k \in {"sk-a", "sk-b", "sk-c", "sk-disabled", "sk-nostatus"} |->
      IF k = "sk-a" THEN
        [status |-> "active", balance |-> 8000000,
         rate_limits |-> [requests_per_minute |-> 2, requests_per_day |-> 2,
                          requests_per_month |-> 2, concurrent_requests |-> 1],
         retry_config |-> [max_retries |-> 2, fallback_to_lower_tier |-> FALSE]]
      ELSE IF k = "sk-b" THEN
        [status |-> "active", balance |-> 100,
         rate_limits |-> [requests_per_minute |-> 60, requests_per_day |-> 10000,
                          requests_per_month |-> 100000, concurrent_requests |-> 10],
         retry_config |-> [max_retries |-> 3, fallback_to_lower_tier |-> TRUE]]
      ELSE IF k = "sk-c" THEN
        [status |-> "active", balance |-> 1000000,
         rate_limits |-> [requests_per_minute |-> 60, requests_per_day |-> 10000,
                          requests_per_month |-> 100000, concurrent_requests |-> 10],
         retry_config |-> [max_retries |-> 3, fallback_to_lower_tier |-> TRUE]]
      ELSE
        \* "absent" stands for a record without a status field
        [status |-> IF k = "sk-disabled" THEN "disabled" ELSE "absent", balance |-> 0,
         rate_limits |-> [requests_per_minute |-> 60, requests_per_day |-> 10000,
                          requests_per_month |-> 100000, concurrent_requests |-> 10],
         retry_config |-> [max_retries |-> 3, fallback_to_lower_tier |-> TRUE]] ]

\* the keys a caller may present; "sk-missing" has no record
PresentedKeys == DOMAIN ApiKeys \cup {"sk-missing"}

(* ----------------------------- requests -------------------------------- *)
\* A message of the request: wellformed says that it is a dict with the keys
\* "role" and "content"; strlen is len(str(content)); images is the number
\* of items of type image / image_url when the content is a list.
MsgHi == [role |-> "user", wellformed |-> TRUE, is_list |-> FALSE, strlen |-> 2, images |-> 0]
MsgSystem == [role |-> "system", wellformed |-> TRUE, is_list |-> FALSE, strlen |-> 18, images |-> 0]
\* a user message whose content is a list with one image_url item and one
\* text item
MsgImage == [role |-> "user", wellformed |-> TRUE, is_list |-> TRUE, strlen |-> 121, images |-> 1]

\* The canonical requests callers send (CompletionRequest.dict(): an absent
\* max_tokens or response_format is None, temperature defaults to 1.0).
ReqHi == [model |-> "gpt-4o", messages |-> <<MsgHi>>,
          temperature |-> Num(10), max_tokens |-> Null, response_format |-> Null]
ReqHot == [ReqHi EXCEPT !.temperature = Num(30)]
ReqGrok == [ReqHi EXCEPT !.model = "grok-2-vision-1212", !.messages = <<MsgSystem, MsgHi>>]
ReqUnknownModel == [ReqHi EXCEPT !.model = "no-such-model"]
Requests == {ReqHi, ReqHot, ReqGrok, ReqUnknownModel}

\* The callers of one behaviour: the keys they present, the requests they
\* send, how many calls they make, how many of them may be in flight at once
\* and how often the clock advances meanwhile.
\*   race:  concurrent calls on one credential
\*   quota: calls on one credential spread over minutes, days and a month
\*   mixed: every key and every request, one call at a time
\*   fallback: calls that cannot pay for gpt-4o, on the tiered catalogue
Workloads ==
  { [name |-> "race", api_keys |-> {"sk-a"}, requests |-> {ReqHi}, models |-> default_configs,
     handlers |-> NumHandlers, max_requests |-> RaceRequests, max_ticks |-> 0],
    [name |-> "quota", api_keys |-> {"sk-a"}, requests |-> {ReqHi}, models |-> default_configs,
     handlers |-> 1, max_requests |-> QuotaRequests, max_ticks |-> QuotaTicks],
    [name |-> "mixed", api_keys |-> PresentedKeys, requests |-> Requests, models |-> default_configs,
     handlers |-> 1, max_requests |-> MixedRequests, max_ticks |-> 0],
    [name |-> "fallback", api_keys |-> {"sk-b", "sk-c"}, requests |-> {ReqHi}, models |-> TieredModels,
     handlers |-> 1, max_requests |-> FallbackRequests, max_ticks |-> 0],
    [name |-> "retired", api_keys |-> {"sk-c"}, requests |-> {ReqGrok}, models |-> RetiredModels,
     handlers |-> 1, max_requests |-> RetiredRequests, max_ticks |-> 0] }

\* usage blocks an upstream returns
Usages == {[prompt_tokens |-> 5, completion_tokens |-> 10],
           [prompt_tokens |-> 5, completion_tokens |-> 100000]}
NoUsage == [prompt_tokens |-> 0, completion_tokens |-> 0]

(* ------------------------------ errors --------------------------------- *)
NoError == [code |-> 0, detail |-> ""]
HTTPException(code, detail) == [code |-> code, detail |-> detail]
\* an exception raised by a provider's upstream call
UpstreamError == [code |-> 500, detail |-> "upstream error"]
\* capabilities.items() on a capabilities value that is a list
AttributeError == [code |-> 500, detail |-> "'list' object has no attribute 'items'"]

(* ---------------------------- validation ------------------------------- *)
\* the order in which request.items() yields the declared parameters
ParamOrder == <<"temperature", "max_tokens", "response_format">>

\* float(value): defined for numbers and numeric strings
FloatOk(v) == v.t \in {"num", "numstr"}
\* int(x) truncates toward zero (numbers are in tenths)
Trunc(n) == IF n >= 0 THEN (n \div 10) * 10 ELSE 0 - (((0 - n) \div 10) * 10)

\* first loop of _validate_request: a None value is replaced by the schema
\* default; a parameter without a schema entry (KeyError) is left alone
SubstituteDefaults(request, allowed_params) ==
  [f \in DOMAIN request |->
     IF f \in ParamNames /\ request[f].t = "null" /\ allowed_params[f].type # "none"
     THEN allowed_params[f].default
     ELSE request[f]]

\* the second loop's body storing an accepted enum value in the form the
\* provider takes, {"type": value}
CheckParam_WrapEnum(value, param_config) ==
  IF param_config.type = "none" THEN [value |-> value, error |-> NoError]
  ELSE IF param_config.type \in {"float", "int"} THEN
    IF ~FloatOk(value)
    THEN [value |-> value, error |-> HTTPException(400, "has invalid type")]
    ELSE LET x == IF param_config.type = "int" THEN Trunc(value.n) ELSE value.n
         IN [value |-> Num(x),
             error |-> IF x < param_config.min THEN HTTPException(400, "must be >= min")
                       ELSE IF x > param_config.max THEN HTTPException(400, "must be <= max")
                       ELSE NoError]
  ELSE
    IF value.t = "str" /\ value.s \in param_config.values
    THEN [value |-> Dict(value.s), error |-> NoError]
    ELSE [value |-> value, error |-> HTTPException(400, "must be one of")]

\* the body of the second loop for one parameter: the converted value and
\* the exception raised, if any
CheckParam(value, param_config) ==
  IF param_config.type = "none" THEN [value |-> value, error |-> NoError]
  ELSE IF param_config.type \in {"float", "int"} THEN
    IF ~FloatOk(value)
    THEN [value |-> value, error |-> HTTPException(400, "has invalid type")]
    ELSE LET x == IF param_config.type = "int" THEN Trunc(value.n) ELSE value.n
         IN [value |-> Num(x),
             error |-> IF x < param_config.min THEN HTTPException(400, "must be >= min")
                       ELSE IF x > param_config.max THEN HTTPException(400, "must be <= max")
                       ELSE NoError]
  ELSE \* enum
    [value |-> value,
     error |-> IF value.t = "str" /\ value.s \in param_config.values THEN NoError
               ELSE HTTPException(400, "must be one of")]

\* the second loop from parameter i on; request[param] is assigned before
\* the bounds are checked, so a rejected request keeps the converted value
RECURSIVE CheckParams(_, _, _)
CheckParams(request, allowed_params, i) ==
  IF i > Len(ParamOrder) THEN [request |-> request, error |-> NoError]
  ELSE LET p == ParamOrder[i]
           r == CheckParam(request[p], allowed_params[p])
           req2 == [request EXCEPT ![p] = r.value]
       IN IF r.error # NoError THEN [request |-> req2, error |-> r.error]
          ELSE CheckParams(req2, allowed_params, i + 1)

\* RequestHandler._validate_request: the request dict after the call and the
\* exception raised, if any (the dict is changed in place)
validate_request(request, model_config) ==
  IF request.messages = <<>>
  THEN [request |-> request, error |-> HTTPException(400, "Request must contain 'messages' field")]
  ELSE IF \E i \in 1..Len(request.messages) : ~request.messages[i].wellformed
  THEN [request |-> request, error |-> HTTPException(400, "Invalid message format")]
  ELSE CheckParams(SubstituteDefaults(request, model_config.parameters),
                   model_config.parameters, 1)

(* -------------------------------- costs -------------------------------- *)
RECURSIVE SumOver(_, _, _)
\* the sums of _estimate_cost over the messages from i on: of
\* len(str(content)) // 4 (field "tokens"), or of the image items ("images")
SumOver(messages, field, i) ==
  IF i > Len(messages) THEN 0
  ELSE (IF field = "tokens" THEN messages[i].strlen \div 4 ELSE messages[i].images)
       + SumOver(messages, field, i + 1)

\* RequestHandler._estimate_cost, in fifths of a millionth: the result of
\* the code is estimate_cost / 5 millionths (total_cost * 1.2)
estimate_cost(request, model_config) ==
  LET estimated_input_tokens == SumOver(request.messages, "tokens", 1)
      estimated_output_tokens == model_config.max_tokens
      input_cost == estimated_input_tokens * model_config.pricing.input_price
      output_cost == estimated_output_tokens * model_config.pricing.output_price
      image_cost == SumOver(request.messages, "images", 1) * model_config.pricing.image_input_price
      total_cost == input_cost + output_cost + image_cost
  IN total_cost * 6

\* _calculate_actual_cost with the two prices exchanged
calculate_actual_cost_swapped(usage, model_config) ==
  usage.prompt_tokens * model_config.pricing.output_price
  + usage.completion_tokens * model_config.pricing.input_price

\* RequestHandler._calculate_actual_cost, in millionths
calculate_actual_cost(usage, model_config) ==
  LET input_cost == usage.prompt_tokens * model_config.pricing.input_price
      output_cost == usage.completion_tokens * model_config.pricing.output_price
  IN input_cost + output_cost

\* check_balance's comparison refusing a balance equal to the estimate
BalanceCovers_Strict(current_balance, estimated_cost) == current_balance * 5 > estimated_cost

\* the comparison of BillingSystem.check_balance: current_balance (millionths)
\* against estimated_cost (fifths of a millionth)
BalanceCovers(current_balance, estimated_cost) == ~(current_balance * 5 < estimated_cost)

(* --------------------------- the initial state ------------------------- *)
\* a handler that is not running a request
IdleFrame ==
  [pc |-> "idle", rid |-> 0, api_key |-> "", request |-> ReqHi, model_id |-> "",
   now |-> 0, depth |-> 0, attempt |-> 0, retry_attempts |-> <<>>,
   response |-> NoUsage, estimated_cost |-> 0, actual_cost |-> 0,
   old_balance |-> 0, new_balance |-> 0, error |-> NoError,
   \* history of this call
   provider_calls |-> 0, admitted |-> 0, released |-> 0, raced |-> FALSE, ordinal |-> 0,
   substitutions |-> 0, max_depth |-> 0, increments |-> 0,
   \* the messages of the request as the caller sent it
   sent |-> <<>>,
   \* the body of a PUT /v1/admin/models/{model_id}
   updates |-> [field |-> "", s |-> "", n |-> 0],
   \* the status code of the endpoint's HTTP response
   status_code |-> 0]

Init ==
  /\ balance = [k \in DOMAIN ApiKeys |-> ApiKeys[k].balance]
  /\ transactions = <<>>
  /\ requests = <<>>
  /\ redis = <<>>
  /\ now = 0
  /\ frame = [h \in Handlers |-> IdleFrame]
  /\ window_log = <<>>
  /\ next_rid = 0
  /\ ticks = 0
  /\ workload \in Workloads

(* --------------------------- the counter store ------------------------- *)
\* the expires_at of a key that was stored without a TTL (TTL key = -1)
NoExpiry == -1

\* GET key (or 0): an expired key reads as absent
redis_get(key) ==
  IF key \in DOMAIN redis /\ (redis[key].expires_at = NoExpiry \/ redis[key].expires_at > now)
  THEN redis[key].value ELSE 0

\* incr_expire with SET key 1 in place of INCR: the count starts over
incr_expire_set(store, key, ttl) ==
  (key :> [value |-> 1, expires_at |-> now + ttl]) @@ store

\* INCR key followed by EXPIRE key ttl, on store
incr_expire(store, key, ttl) ==
  LET old == IF key \in DOMAIN store /\ store[key].expires_at > now THEN store[key].value ELSE 0
  IN (key :> [value |-> old + 1, expires_at |-> now + ttl]) @@ store

\* history: one more increment, and one more admission if passed, in bucket
Bump(log, bucket, passed) ==
  LET old == IF bucket \in DOMAIN log THEN log[bucket] ELSE [arrivals |-> 0, passes |-> 0]
  IN (bucket :> [arrivals |-> old.arrivals + 1,
                 passes |-> old.passes + (IF passed THEN 1 ELSE 0)]) @@ log

(* ------------------------------ helpers -------------------------------- *)
Goto(h, label) == frame' = [frame EXCEPT ![h].pc = label]
\* raise: control passes to the except clause of handle_request
Raise(f, e) == [f EXCEPT !.pc = "log_error", !.error = e]

(* ------------------------------ actions -------------------------------- *)
\* a caller invokes handle_request(request, api_key); idle handlers are
\* interchangeable, so the call goes to the first one
Receive(h, api_key, request) ==
  /\ frame[h].pc = "idle"
  /\ h <= workload.handlers
  /\ \A g \in Handlers : g < h => frame[g].pc # "idle"
  /\ api_key \in workload.api_keys
  /\ request \in workload.requests
  /\ next_rid < workload.max_requests
  /\ next_rid' = next_rid + 1
  /\ frame' = [frame EXCEPT ![h] = [IdleFrame EXCEPT !.pc = "get_api_config", !.rid = next_rid + 1,
                                                     !.api_key = api_key, !.request = request,
                                                     !.sent = request.messages]]
  /\ UNCHANGED <<balance, transactions, requests, redis, now, window_log, ticks, workload>>

\* _get_api_config that rejects only a record whose status is "disabled"
GetApiConfig_OnlyDisabled(h) ==
  LET f == frame[h] IN
  /\ f.pc = "get_api_config"
  /\ frame' = [frame EXCEPT ![h] =
       IF f.api_key \notin DOMAIN ApiKeys THEN Raise(f, HTTPException(401, "Invalid API key"))
       ELSE IF ApiKeys[f.api_key].status = "disabled" THEN Raise(f, HTTPException(403, "API key is not active"))
       ELSE [f EXCEPT !.pc = "get_model_config"]]
  /\ UNCHANGED <<balance, transactions, requests, redis, now, window_log, next_rid, ticks, workload>>

\* step 1: _get_api_config and the 401 / 403 rejections
GetApiConfig(h) ==
  LET f == frame[h] IN
  /\ f.pc = "get_api_config"
  /\ frame' = [frame EXCEPT ![h] =
       IF f.api_key \notin DOMAIN ApiKeys THEN Raise(f, HTTPException(401, "Invalid API key"))
       ELSE IF ApiKeys[f.api_key].status # "active" THEN Raise(f, HTTPException(403, "API key is not active"))
       ELSE [f EXCEPT !.pc = "get_model_config"]]
  /\ UNCHANGED <<balance, transactions, requests, redis, now, window_log, next_rid, ticks, workload>>

\* the model lookup followed at once by _validate_request, without the call
\* of check_rate_limits
GetModelConfig_SkipAdmission(h) ==
  LET f == frame[h]
      model_config == get_model_config(f.request.model) IN
  /\ f.pc = "get_model_config"
  /\ frame' = [frame EXCEPT ![h] =
       IF model_config = NoModel THEN Raise(f, HTTPException(400, "Model not found"))
       ELSE [f EXCEPT !.pc = "validate", !.model_id = model_config.model_id]]
  /\ UNCHANGED <<balance, transactions, requests, redis, now, window_log, next_rid, ticks, workload>>

\* a pipeline that counts the request against the windows before it looks
\* the model up
GetModelConfig_AdmitFirst(h) ==
  LET f == frame[h]
      k == f.api_key
      model_config == get_model_config(f.request.model)
      store == incr_expire(incr_expire(incr_expire(redis, <<"minute", k, MinuteOfHour(now)>>, MinuteTTL),
                                       <<"day", k, DateOf(now)>>, DayTTL),
                           <<"month", k, MonthOf(now)>>, MonthTTL) IN
  /\ f.pc = "get_model_config"
  /\ redis' = store
  /\ frame' = [frame EXCEPT ![h] =
       IF model_config = NoModel
       THEN [Raise(f, HTTPException(400, "Model not found")) EXCEPT !.increments = @ + 1]
       ELSE [f EXCEPT !.pc = "check_concurrent", !.model_id = model_config.model_id, !.now = now,
                      !.increments = @ + 1]]
  /\ UNCHANGED <<balance, transactions, requests, now, window_log, next_rid, ticks, workload>>

\* step 2: the model lookup; on success the handler enters check_rate_limits,
\* reads the clock and suspends on the first Redis read
GetModelConfig(h) ==
  LET f == frame[h]
      model_config == get_model_config(f.request.model) IN
  /\ f.pc = "get_model_config"
  /\ frame' = [frame EXCEPT ![h] =
       IF model_config = NoModel THEN Raise(f, HTTPException(400, "Model not found"))
       ELSE [f EXCEPT !.pc = "check_concurrent", !.model_id = model_config.model_id, !.now = now]]
  /\ UNCHANGED <<balance, transactions, requests, redis, now, window_log, next_rid, ticks, workload>>

\* the concurrency check with > in place of >=
CheckConcurrent_Strict(h) ==
  LET f == frame[h]
      rate_limits == ApiKeys[f.api_key].rate_limits
      current_concurrent == redis_get(<<"concurrent", f.api_key, 0>>)
      racers == {g \in Handlers \ {h} : frame[g].pc = "incr_windows" /\ frame[g].api_key = f.api_key} IN
  /\ f.pc = "check_concurrent"
  /\ frame' = [g \in Handlers |->
       IF g = h THEN
         IF current_concurrent > rate_limits.concurrent_requests
         THEN Raise(f, HTTPException(429, "Too many concurrent requests"))
         ELSE [f EXCEPT !.pc = "incr_windows", !.raced = (racers # {})]
       ELSE IF g \in racers /\ current_concurrent < rate_limits.concurrent_requests
       THEN [frame[g] EXCEPT !.raced = TRUE]
       ELSE frame[g]]
  /\ UNCHANGED <<balance, transactions, requests, redis, now, window_log, next_rid, ticks, workload>>

\* check_rate_limits, the concurrency check
CheckConcurrent(h) ==
  LET f == frame[h]
      rate_limits == ApiKeys[f.api_key].rate_limits
      current_concurrent == redis_get(<<"concurrent", f.api_key, 0>>)
      racers == {g \in Handlers \ {h} : frame[g].pc = "incr_windows" /\ frame[g].api_key = f.api_key} IN
  /\ f.pc = "check_concurrent"
  /\ frame' = [g \in Handlers |->
       IF g = h THEN
         IF current_concurrent >= rate_limits.concurrent_requests
         THEN Raise(f, HTTPException(429, "Too many concurrent requests"))
         ELSE [f EXCEPT !.pc = "incr_windows", !.raced = (racers # {})]
       ELSE IF g \in racers /\ current_concurrent < rate_limits.concurrent_requests
       THEN [frame[g] EXCEPT !.raced = TRUE]
       ELSE frame[g]]
  /\ UNCHANGED <<balance, transactions, requests, redis, now, window_log, next_rid, ticks, workload>>

\* check_rate_limits that takes the three increments back (DECR) when a
\* quota check rejects the request
IncrWindows_Rollback(h) ==
  LET f == frame[h]
      k == f.api_key
      rate_limits == ApiKeys[k].rate_limits
      minute_key == <<"minute", k, MinuteOfHour(f.now)>>
      day_key == <<"day", k, DateOf(f.now)>>
      month_key == <<"month", k, MonthOf(f.now)>>
      store == incr_expire(incr_expire(incr_expire(redis, minute_key, MinuteTTL),
                                       day_key, DayTTL), month_key, MonthTTL)
      error == IF store[minute_key].value > rate_limits.requests_per_minute
                 THEN HTTPException(429, "Rate limit exceeded (per minute)")
               ELSE IF store[day_key].value > rate_limits.requests_per_day
                 THEN HTTPException(429, "Rate limit exceeded (per day)")
               ELSE IF store[month_key].value > rate_limits.requests_per_month
                 THEN HTTPException(429, "Rate limit exceeded (per month)")
               ELSE NoError
      passed == (error = NoError)
      minute_bucket == <<"minute", k, MinuteBucket(f.now)>>
      log == Bump(Bump(Bump(window_log, minute_bucket, passed), day_key, passed), month_key, passed) IN
  /\ f.pc = "incr_windows"
  /\ redis' = IF passed THEN store
              ELSE [key \in DOMAIN store |->
                      IF key \in {minute_key, day_key, month_key}
                      THEN [store[key] EXCEPT !.value = @ - 1] ELSE store[key]]
  /\ window_log' = log
  /\ frame' = [frame EXCEPT ![h] =
       IF passed
       THEN [f EXCEPT !.pc = "validate", !.admitted = @ + 1, !.increments = @ + 1,
                      !.ordinal = log[minute_bucket].arrivals, !.now = 0]
       ELSE [Raise(f, error) EXCEPT !.increments = @ + 1,
                                    !.ordinal = log[minute_bucket].arrivals, !.now = 0]]
  /\ UNCHANGED <<balance, transactions, requests, now, next_rid, ticks, workload>>

\* check_rate_limits with window keys that leave the credential out
\* (f"minute:{now.minute}"): one set of counters for all credentials
IncrWindows_SharedKeys(h) ==
  LET f == frame[h]
      k == f.api_key
      rate_limits == ApiKeys[k].rate_limits
      minute_key == <<"minute", "", MinuteOfHour(f.now)>>
      day_key == <<"day", "", DateOf(f.now)>>
      month_key == <<"month", "", MonthOf(f.now)>>
      store == incr_expire(incr_expire(incr_expire(redis, minute_key, MinuteTTL),
                                       day_key, DayTTL), month_key, MonthTTL)
      error == IF store[minute_key].value > rate_limits.requests_per_minute
                 THEN HTTPException(429, "Rate limit exceeded (per minute)")
               ELSE IF store[day_key].value > rate_limits.requests_per_day
                 THEN HTTPException(429, "Rate limit exceeded (per day)")
               ELSE IF store[month_key].value > rate_limits.requests_per_month
                 THEN HTTPException(429, "Rate limit exceeded (per month)")
               ELSE NoError
      passed == (error = NoError)
      minute_bucket == <<"minute", k, MinuteBucket(f.now)>>
      log == Bump(Bump(Bump(window_log, minute_bucket, passed), <<"day", k, DateOf(f.now)>>, passed),
                  <<"month", k, MonthOf(f.now)>>, passed) IN
  /\ f.pc = "incr_windows"
  /\ redis' = store
  /\ window_log' = log
  /\ frame' = [frame EXCEPT ![h] =
       IF passed
       THEN [f EXCEPT !.pc = "validate", !.admitted = @ + 1, !.increments = @ + 1,
                      !.ordinal = log[minute_bucket].arrivals, !.now = 0]
       ELSE [Raise(f, error) EXCEPT !.increments = @ + 1,
                                    !.ordinal = log[minute_bucket].arrivals, !.now = 0]]
  /\ UNCHANGED <<balance, transactions, requests, now, next_rid, ticks, workload>>

\* check_rate_limits, the pipeline of three INCR / EXPIRE pairs and the
\* three quota checks
IncrWindows(h) ==
  LET f == frame[h]
      k == f.api_key
      rate_limits == ApiKeys[k].rate_limits
      minute_key == <<"minute", k, MinuteOfHour(f.now)>>
      day_key == <<"day", k, DateOf(f.now)>>
      month_key == <<"month", k, MonthOf(f.now)>>
      store == incr_expire(incr_expire(incr_expire(redis, minute_key, MinuteTTL),
                                       day_key, DayTTL), month_key, MonthTTL)
      error == IF store[minute_key].value > rate_limits.requests_per_minute
                 THEN HTTPException(429, "Rate limit exceeded (per minute)")
               ELSE IF store[day_key].value > rate_limits.requests_per_day
                 THEN HTTPException(429, "Rate limit exceeded (per day)")
               ELSE IF store[month_key].value > rate_limits.requests_per_month
                 THEN HTTPException(429, "Rate limit exceeded (per month)")
               ELSE NoError
      passed == (error = NoError)
      minute_bucket == <<"minute", k, MinuteBucket(f.now)>>
      log == Bump(Bump(Bump(window_log, minute_bucket, passed), day_key, passed), month_key, passed) IN
  /\ f.pc = "incr_windows"
  /\ redis' = store
  /\ window_log' = log
  /\ frame' = [frame EXCEPT ![h] =
       IF passed
       THEN [f EXCEPT !.pc = "validate", !.admitted = @ + 1, !.increments = @ + 1,
                      !.ordinal = log[minute_bucket].arrivals, !.now = 0]
       ELSE [Raise(f, error) EXCEPT !.increments = @ + 1,
                                    !.ordinal = log[minute_bucket].arrivals, !.now = 0]]
  /\ UNCHANGED <<balance, transactions, requests, now, next_rid, ticks, workload>>

\* step 4: _validate_request
ValidateRequest(h) ==
  LET f == frame[h]
      r == validate_request(f.request, get_model_config(f.model_id)) IN
  /\ f.pc = "validate"
  /\ frame' = [frame EXCEPT ![h] =
       IF r.error # NoError THEN [Raise(f, r.error) EXCEPT !.request = r.request]
       ELSE [f EXCEPT !.pc = "check_balance", !.request = r.request]]
  /\ UNCHANGED <<balance, transactions, requests, redis, now, window_log, next_rid, ticks, workload>>

\* a balance check that places a hold: it takes the estimate off the balance
\* when the balance covers it
CheckBalance_Hold(h) ==
  LET f == frame[h]
      estimated_cost == estimate_cost(f.request, get_model_config(f.model_id))
      current_balance == balance[f.api_key] IN
  /\ f.pc = "check_balance"
  /\ frame' = [frame EXCEPT ![h] =
       IF BalanceCovers(current_balance, estimated_cost)
       THEN [f EXCEPT !.pc = "dispatch", !.estimated_cost = estimated_cost, !.attempt = 0]
       ELSE [f EXCEPT !.pc = "insufficient", !.estimated_cost = estimated_cost]]
  /\ balance' = IF BalanceCovers(current_balance, estimated_cost)
                THEN [balance EXCEPT ![f.api_key] = @ - estimated_cost \div 5]
                ELSE balance
  /\ UNCHANGED <<transactions, requests, redis, now, window_log, next_rid, ticks, workload>>

\* step 5: _estimate_cost and BillingSystem.check_balance
CheckBalance(h) ==
  LET f == frame[h]
      estimated_cost == estimate_cost(f.request, get_model_config(f.model_id))
      current_balance == balance[f.api_key] IN
  /\ f.pc = "check_balance"
  /\ frame' = [frame EXCEPT ![h] =
       IF BalanceCovers(current_balance, estimated_cost)
       THEN [f EXCEPT !.pc = "dispatch", !.estimated_cost = estimated_cost, !.attempt = 0]
       ELSE [f EXCEPT !.pc = "insufficient", !.estimated_cost = estimated_cost]]
  /\ UNCHANGED <<balance, transactions, requests, redis, now, window_log, next_rid, ticks, workload>>

\* _handle_insufficient_balance that lets the request through to dispatch
HandleInsufficientBalance_Proceeds(h) ==
  /\ frame[h].pc = "insufficient"
  /\ frame' = [frame EXCEPT ![h].pc = "dispatch", ![h].attempt = 0]
  /\ UNCHANGED <<balance, transactions, requests, redis, now, window_log, next_rid, ticks, workload>>

\* _handle_insufficient_balance whose lower-tier lookup also accepts a
\* current model with a capabilities list
HandleInsufficientBalance_AnyCapabilities(h) ==
  LET f == frame[h]
      current_model == get_model_config(f.request.model)
      lower_tier_model == find_lower_tier_model(current_model.capability_level,
                                                current_model.capabilities) IN
  /\ f.pc = "insufficient"
  /\ frame' = [frame EXCEPT ![h] =
       IF ~ApiKeys[f.api_key].retry_config.fallback_to_lower_tier
       THEN Raise(f, HTTPException(402, "Insufficient balance"))
       ELSE IF lower_tier_model = NoModel
       THEN Raise(f, HTTPException(402, "Insufficient balance and no lower tier model available"))
       ELSE [f EXCEPT !.pc = "get_api_config", !.depth = @ + 1,
                      !.request = [f.request EXCEPT !.model = lower_tier_model.model_id],
                      !.retry_attempts = <<>>,
                      !.substitutions = @ + 1,
                      !.max_depth = IF f.depth + 1 > @ THEN f.depth + 1 ELSE @]]
  /\ UNCHANGED <<balance, transactions, requests, redis, now, window_log, next_rid, ticks, workload>>

\* _handle_insufficient_balance: 402, or the substitution of a lower-tier
\* model and the recursive handle_request; find_lower_tier_model calls
\* capabilities.items(), which a list does not have
HandleInsufficientBalance(h) ==
  LET f == frame[h]
      api_config == ApiKeys[f.api_key]
      current_model == get_model_config(f.request.model)
      lower_tier_model == find_lower_tier_model(current_model.capability_level,
                                                current_model.capabilities) IN
  /\ f.pc = "insufficient"
  /\ frame' = [frame EXCEPT ![h] =
       IF ~api_config.retry_config.fallback_to_lower_tier
       THEN Raise(f, HTTPException(402, "Insufficient balance"))
       ELSE IF current_model = NoModel
       THEN Raise(f, HTTPException(400, "Model not found"))
       ELSE IF current_model.capabilities.kind # "document"
       THEN Raise(f, AttributeError)
       ELSE IF lower_tier_model = NoModel
       THEN Raise(f, HTTPException(402, "Insufficient balance and no lower tier model available"))
       ELSE [f EXCEPT !.pc = "get_api_config", !.depth = @ + 1,
                      !.request = [f.request EXCEPT !.model = lower_tier_model.model_id],
                      !.retry_attempts = <<>>,
                      !.substitutions = @ + 1,
                      !.max_depth = IF f.depth + 1 > @ THEN f.depth + 1 ELSE @]]
  /\ UNCHANGED <<balance, transactions, requests, redis, now, window_log, next_rid, ticks, workload>>

\* the effect of provider.completion(request) on the request dict:
\* request.pop("messages", [])
PopMessages(request) == [request EXCEPT !.messages = <<>>]

\* step 6, one attempt of _process_request_with_retry that succeeds; the
\* handler goes on to _calculate_actual_cost and suspends in deduct_balance
ProviderSuccess(h, usage) ==
  LET f == frame[h] IN
  /\ f.pc = "dispatch"
  /\ frame' = [frame EXCEPT ![h] =
       [f EXCEPT !.pc = "deduct_read",
                 !.request = PopMessages(f.request),
                 !.provider_calls = @ + 1,
                 !.retry_attempts = IF f.attempt > 0
                                    THEN Append(@, [attempt |-> f.attempt + 1, status |-> "success"])
                                    ELSE @,
                 !.response = usage,
                 !.actual_cost = calculate_actual_cost(usage, get_model_config(f.model_id))]]
  /\ UNCHANGED <<balance, transactions, requests, redis, now, window_log, next_rid, ticks, workload>>

\* an attempt that raises, with the loop giving up one attempt too late
ProviderFailure_OffByOne(h) ==
  LET f == frame[h]
      retry_config == ApiKeys[f.api_key].retry_config
      g == [f EXCEPT !.request = PopMessages(f.request),
                     !.provider_calls = @ + 1,
                     !.retry_attempts = Append(@, [attempt |-> f.attempt + 1, status |-> "failed"])] IN
  /\ f.pc = "dispatch"
  /\ frame' = [frame EXCEPT ![h] =
       IF f.attempt = retry_config.max_retries
       THEN Raise(g, UpstreamError)
       ELSE [g EXCEPT !.pc = "sleep"]]
  /\ UNCHANGED <<balance, transactions, requests, redis, now, window_log, next_rid, ticks, workload>>

\* an attempt that raises in a loop that never gives up: it always sleeps
\* and tries again
ProviderFailure_NoGiveUp(h) ==
  LET f == frame[h]
      g == [f EXCEPT !.request = PopMessages(f.request),
                     !.provider_calls = @ + 1,
                     !.retry_attempts = Append(@, [attempt |-> f.attempt + 1, status |-> "failed"])] IN
  /\ f.pc = "dispatch"
  /\ frame' = [frame EXCEPT ![h] = [g EXCEPT !.pc = "sleep"]]
  /\ UNCHANGED <<balance, transactions, requests, redis, now, window_log, next_rid, ticks, workload>>

\* step 6, one attempt that raises: the last attempt re-raises, an earlier
\* one suspends in the retry sleep
ProviderFailure(h) ==
  LET f == frame[h]
      retry_config == ApiKeys[f.api_key].retry_config
      g == [f EXCEPT !.request = PopMessages(f.request),
                     !.provider_calls = @ + 1,
                     !.retry_attempts = Append(@, [attempt |-> f.attempt + 1, status |-> "failed"])] IN
  /\ f.pc = "dispatch"
  /\ frame' = [frame EXCEPT ![h] =
       IF f.attempt = retry_config.max_retries - 1
       THEN Raise(g, UpstreamError)
       ELSE [g EXCEPT !.pc = "sleep"]]
  /\ UNCHANGED <<balance, transactions, requests, redis, now, window_log, next_rid, ticks, workload>>

\* the retry sleep after which the loop repeats the same attempt
RetrySleep_SameAttempt(h) ==
  /\ frame[h].pc = "sleep"
  /\ frame' = [frame EXCEPT ![h].pc = "dispatch"]
  /\ UNCHANGED <<balance, transactions, requests, redis, now, window_log, next_rid, ticks, workload>>

\* the retry sleep ends and the loop starts its next attempt
RetrySleep(h) ==
  /\ frame[h].pc = "sleep"
  /\ frame' = [frame EXCEPT ![h].pc = "dispatch", ![h].attempt = @ + 1]
  /\ UNCHANGED <<balance, transactions, requests, redis, now, window_log, next_rid, ticks, workload>>

\* deduct_balance: find_one returns the credential; the new balance is
\* computed from the balance read
DeductRead(h) ==
  LET f == frame[h] IN
  /\ f.pc = "deduct_read"
  /\ frame' = [frame EXCEPT ![h].pc = "deduct_write",
                            ![h].old_balance = balance[f.api_key],
                            ![h].new_balance = balance[f.api_key] - f.actual_cost]
  /\ UNCHANGED <<balance, transactions, requests, redis, now, window_log, next_rid, ticks, workload>>

\* deduct_balance writing back the balance it read
DeductWrite_NoSubtract(h) ==
  /\ frame[h].pc = "deduct_write"
  /\ balance' = [balance EXCEPT ![frame[h].api_key] = frame[h].old_balance]
  /\ frame' = [frame EXCEPT ![h].pc = "log_transaction"]
  /\ UNCHANGED <<transactions, requests, redis, now, window_log, next_rid, ticks, workload>>

\* deduct_balance: update_one sets the balance
DeductWrite(h) ==
  LET f == frame[h] IN
  /\ f.pc = "deduct_write"
  /\ balance' = [balance EXCEPT ![f.api_key] = f.new_balance]
  /\ Goto(h, "log_transaction")
  /\ UNCHANGED <<transactions, requests, redis, now, window_log, next_rid, ticks, workload>>

\* deduct_balance without the call of _log_transaction
LogTransaction_Skip(h) ==
  /\ frame[h].pc = "log_transaction"
  /\ frame' = [frame EXCEPT ![h].pc = "log_request"]
  /\ UNCHANGED <<balance, transactions, requests, redis, now, window_log, next_rid, ticks, workload>>

\* deduct_balance: _log_transaction inserts the transaction entry
LogTransaction(h) ==
  LET f == frame[h] IN
  /\ f.pc = "log_transaction"
  /\ transactions' = Append(transactions,
       [rid |-> f.rid, api_key |-> f.api_key, amount |-> f.actual_cost,
        old_balance |-> f.old_balance, new_balance |-> f.new_balance,
        transaction_type |-> "deduction"])
  /\ Goto(h, "log_request")
  /\ UNCHANGED <<balance, requests, redis, now, window_log, next_rid, ticks, workload>>

\* the except clause of the endpoint create_chat_completion: any exception
\* of handle_request, an HTTPException included, becomes an HTTPException 500
create_chat_completion_except(e) == HTTPException(500, e.detail)

\* the status code of the JSONResponse of http_exception_handler
http_exception_handler(exc) == exc.code

\* the role -> count map _log_request builds from request["messages"]
message_types(messages) ==
  [role \in {messages[i].role : i \in 1..Len(messages)} |->
     Cardinality({i \in 1..Len(messages) : messages[i].role = role})]

\* step 8: _log_request inserts the completed entry and the response is
\* returned (through the outer frames of a fallback, which return it as is)
\* to the endpoint, which answers 200
LogRequest(h) ==
  LET f == frame[h] IN
  /\ f.pc = "log_request"
  /\ requests' = Append(requests,
       [rid |-> f.rid, api_key |-> f.api_key, model_id |-> f.request.model,
        message_count |-> Len(f.request.messages),
        message_types |-> message_types(f.request.messages), tokens |-> f.response,
        cost |-> f.actual_cost, status |-> "completed",
        retry_attempts |-> f.retry_attempts, error_code |-> 0])
  /\ frame' = [frame EXCEPT ![h].pc = "done", ![h].status_code = 200]
  /\ UNCHANGED <<balance, transactions, redis, now, window_log, next_rid, ticks, workload>>

\* an except clause that gives a failed request's window increments back
\* with DECR
LogError_Refund(h) ==
  LET f == frame[h] IN
  /\ f.pc = "log_error"
  /\ requests' = Append(requests,
       [rid |-> f.rid, api_key |-> f.api_key, model_id |-> f.request.model,
        message_count |-> Len(f.request.messages), tokens |-> NoUsage,
        cost |-> 0, status |-> "failed",
        retry_attempts |-> <<>>, error_code |-> f.error.code])
  /\ redis' = [key \in DOMAIN redis |->
                 IF key[1] \in {"minute", "day", "month"} /\ key[2] = f.api_key
                 THEN [redis[key] EXCEPT !.value = @ - 1] ELSE redis[key]]
  /\ frame' = [frame EXCEPT ![h] =
       IF f.depth > 0 THEN [f EXCEPT !.depth = @ - 1]
       ELSE [f EXCEPT !.pc = "failed",
                      !.status_code = http_exception_handler(create_chat_completion_except(f.error))]]
  /\ UNCHANGED <<balance, transactions, now, window_log, next_rid, ticks, workload>>

\* the except clause: _log_error inserts the failed entry and the exception
\* is re-raised, into the except clause of the calling frame if there is
\* one, else into the endpoint
LogError(h) ==
  LET f == frame[h] IN
  /\ f.pc = "log_error"
  /\ requests' = Append(requests,
       [rid |-> f.rid, api_key |-> f.api_key, model_id |-> f.request.model,
        message_count |-> Len(f.request.messages), tokens |-> NoUsage,
        cost |-> 0, status |-> "failed",
        retry_attempts |-> <<>>, error_code |-> f.error.code])
  /\ frame' = [frame EXCEPT ![h] =
       IF f.depth > 0 THEN [f EXCEPT !.depth = @ - 1]
       ELSE [f EXCEPT !.pc = "failed",
                      !.status_code = http_exception_handler(create_chat_completion_except(f.error))]]
  /\ UNCHANGED <<balance, transactions, redis, now, window_log, next_rid, ticks, workload>>

\* the caller has its response or its exception; the handler is free again
Return(h) ==
  /\ frame[h].pc \in {"done", "failed"}
  /\ frame' = [frame EXCEPT ![h] = IdleFrame]
  /\ UNCHANGED <<balance, transactions, requests, redis, now, window_log, next_rid, ticks, workload>>

\* Wall-clock time passes and the counter store drops the keys whose TTL has
\* run out.  A rate-limit check takes far less than the clock's resolution:
\* the clock does not advance while a handler is inside check_rate_limits.
Tick(d) ==
  /\ ticks < workload.max_ticks
  /\ \A h \in Handlers : frame[h].pc \notin {"check_concurrent", "incr_windows"}
  /\ ticks' = ticks + 1
  /\ now' = now + d
  /\ redis' = [key \in {x \in DOMAIN redis : redis[x].expires_at = NoExpiry
                                               \/ redis[x].expires_at > now + d} |-> redis[key]]
  /\ UNCHANGED <<balance, transactions, requests, frame, window_log, next_rid, workload>>

Next ==
  \/ \E h \in Handlers, api_key \in PresentedKeys, request \in Requests : Receive(h, api_key, request)
  \/ \E h \in Handlers : GetApiConfig(h)
  \/ \E h \in Handlers : GetModelConfig(h)
  \/ \E h \in Handlers : CheckConcurrent(h)
  \/ \E h \in Handlers : IncrWindows(h)
  \/ \E h \in Handlers : ValidateRequest(h)
  \/ \E h \in Handlers : CheckBalance(h)
  \/ \E h \in Handlers : HandleInsufficientBalance(h)
  \/ \E h \in Handlers, usage \in Usages : ProviderSuccess(h, usage)
  \/ \E h \in Handlers : ProviderFailure(h)
  \/ \E h \in Handlers : RetrySleep(h)
  \/ \E h \in Handlers : DeductRead(h)
  \/ \E h \in Handlers : DeductWrite(h)
  \/ \E h \in Handlers : LogTransaction(h)
  \/ \E h \in Handlers : LogRequest(h)
  \/ \E h \in Handlers : LogError(h)
  \/ \E h \in Handlers : Return(h)
  \/ \E d \in TickSteps : Tick(d)

Spec == Init /\ [][Next]_vars

\* the steps of the coroutine of handler h after the call has been received
HandlerStep(h) ==
  \/ GetApiConfig(h)
  \/ GetModelConfig(h)
  \/ CheckConcurrent(h)
  \/ IncrWindows(h)
  \/ ValidateRequest(h)
  \/ CheckBalance(h)
  \/ HandleInsufficientBalance(h)
  \/ \E usage \in Usages : ProviderSuccess(h, usage)
  \/ ProviderFailure(h)
  \/ RetrySleep(h)
  \/ DeductRead(h)
  \/ DeductWrite(h)
  \/ LogTransaction(h)
  \/ LogRequest(h)
  \/ LogError(h)

\* Two handlers serving callers with different credentials at the same
\* time; both credentials can pay for the request.
InitPair ==
  /\ balance = [k \in DOMAIN ApiKeys |-> ApiKeys[k].balance]
  /\ transactions = <<>>
  /\ requests = <<>>
  /\ redis = <<>>
  /\ now = 0
  /\ frame = [h \in Handlers |-> IdleFrame]
  /\ window_log = <<>>
  /\ next_rid = 0
  /\ ticks = 0
  /\ workload = [name |-> "pair", api_keys |-> {"sk-a", "sk-c"}, requests |-> {ReqGrok},
                 models |-> default_configs, handlers |-> 2,
                 max_requests |-> PairRequests, max_ticks |-> 0]

NextPair ==
  \/ \E h \in Handlers, api_key \in PresentedKeys, request \in Requests : Receive(h, api_key, request)
  \/ \E h \in Handlers : GetApiConfig(h)
  \/ \E h \in Handlers : GetModelConfig(h)
  \/ \E h \in Handlers : CheckConcurrent(h)
  \/ \E h \in Handlers : IncrWindows(h)
  \/ \E h \in Handlers : ValidateRequest(h)
  \/ \E h \in Handlers : CheckBalance(h)
  \/ \E h \in Handlers, usage \in Usages : ProviderSuccess(h, usage)
  \/ \E h \in Handlers : ProviderFailure(h)
  \/ \E h \in Handlers : RetrySleep(h)
  \/ \E h \in Handlers : DeductRead(h)
  \/ \E h \in Handlers : DeductWrite(h)
  \/ \E h \in Handlers : LogTransaction(h)
  \/ \E h \in Handlers : LogRequest(h)
  \/ \E h \in Handlers : LogError(h)
  \/ \E h \in Handlers : Return(h)

PairSpec == InitPair /\ [][NextPair]_vars

\* The event loop resumes every coroutine whose await has completed, and
\* every database, Redis and provider call returns or raises: a handler
\* that can take a step eventually takes one.
LiveSpec == Spec /\ \A h \in Handlers : WF_vars(HandlerStep(h))

(* ------------------- _validate_request on its own --------------------- *)
\* A db.models with the seeded gpt-4o, a record whose parameter schema
\* declares the same parameters without a "default", and a record of a model
\* without the image capability.
ValidationModels ==
  << default_configs[1],
     [default_configs[1] EXCEPT
        !.model_id = "no-defaults",
        !.parameters = [temperature |-> [FloatParam(0, 20, 0) EXCEPT !.default = Null],
                        max_tokens |-> [IntParam(10, 40960, 0) EXCEPT !.default = Null],
                        response_format |-> [EnumParam({"text", "json_object"}, "") EXCEPT !.default = Null]]],
     [default_configs[1] EXCEPT
        !.model_id = "text-only",
        !.capabilities = [AllCapabilities EXCEPT !.image = FALSE]] >>

\* the values a caller may give the three parameters: None, numbers inside,
\* on and outside the bounds, a number with a fraction, numeric and other
\* strings, and the dict that CompletionRequest.dict() makes of a
\* response_format
TemperatureValues == {Null, Num(0), Num(7), Num(20), Num(21), Num(0 - 1), NumStr(15), Str("hot")}
MaxTokensValues == {Null, Num(10), Num(5), Num(20485), Num(40960), Num(40965), Num(40970), NumStr(1000)}
ResponseFormatValues == {Null, Str("text"), Str("xml"), Dict("json_object")}

ValidationRequests ==
  [model : {"gpt-4o", "no-defaults", "text-only"}, messages : {<<MsgHi>>, <<MsgSystem, MsgImage>>},
   temperature : TemperatureValues, max_tokens : MaxTokensValues,
   response_format : ResponseFormatValues]

\* a handler about to call _validate_request(request, model_config), for
\* every request of ValidationRequests
InitValidate ==
  /\ balance = [k \in DOMAIN ApiKeys |-> ApiKeys[k].balance]
  /\ transactions = <<>>
  /\ requests = <<>>
  /\ redis = <<>>
  /\ now = 0
  /\ \E request \in ValidationRequests :
       frame = [h \in Handlers |->
                  IF h = 1
                  THEN [IdleFrame EXCEPT !.pc = "validate", !.rid = 1, !.api_key = "sk-c",
                                         !.request = request, !.model_id = request.model,
                                         !.admitted = 1, !.increments = 1, !.ordinal = 1]
                  ELSE IdleFrame]
  /\ window_log = <<>>
  /\ next_rid = 1
  /\ ticks = 0
  /\ workload = [name |-> "validate", api_keys |-> {"sk-c"}, requests |-> {ReqHi},
                 models |-> ValidationModels, handlers |-> 1, max_requests |-> 1, max_ticks |-> 0]

NextValidate == \E h \in Handlers : ValidateRequest(h)

ValidateSpec == InitValidate /\ [][NextValidate]_vars

(* ---------------- check_rate_limits over counter-store states ----------- *)
\* the largest counter value found in the store when the call starts
MaxStored == 2

\* The counter store as check_rate_limits may find it for api_key at time
\* 0: the concurrency key (written by no code of the application; stored
\* without a TTL) and the three window keys, each absent or holding
\* 1..MaxStored.
AdmitStores(api_key) ==
  LET keys == [concurrent |-> <<"concurrent", api_key, 0>>,
               minute |-> <<"minute", api_key, MinuteOfHour(0)>>,
               day |-> <<"day", api_key, DateOf(0)>>,
               month |-> <<"month", api_key, MonthOf(0)>>]
      ttl == [concurrent |-> NoExpiry, minute |-> MinuteTTL, day |-> DayTTL, month |-> MonthTTL]
  IN { [key \in {keys[n] : n \in {m \in DOMAIN keys : v[m] > 0}} |->
          LET n == CHOOSE m \in DOMAIN keys : keys[m] = key
          IN [value |-> v[n], expires_at |-> ttl[n]]]
       : v \in [DOMAIN keys -> 0..MaxStored] }

\* a handler entering check_rate_limits(api_key, rate_limits) on every
\* store of AdmitStores
InitAdmit ==
  /\ balance = [k \in DOMAIN ApiKeys |-> ApiKeys[k].balance]
  /\ transactions = <<>>
  /\ requests = <<>>
  /\ redis \in AdmitStores("sk-a")
  /\ now = 0
  /\ frame = [h \in Handlers |->
                IF h = 1
                THEN [IdleFrame EXCEPT !.pc = "check_concurrent", !.rid = 1, !.api_key = "sk-a",
                                       !.request = ReqHi, !.model_id = ReqHi.model, !.now = 0]
                ELSE IdleFrame]
  /\ window_log = <<>>
  /\ next_rid = 1
  /\ ticks = 0
  /\ workload = [name |-> "admit", api_keys |-> {"sk-a"}, requests |-> {ReqHi},
                 models |-> default_configs, handlers |-> 1, max_requests |-> 1, max_ticks |-> 0]

NextAdmit ==
  \/ \E h \in Handlers : CheckConcurrent(h)
  \/ \E h \in Handlers : IncrWindows(h)

AdmitSpec == InitAdmit /\ [][NextAdmit]_vars

(* ------------- _estimate_cost and check_balance over balances ----------- *)
\* how far below and above the estimate the stored balances lie, in
\* millionths
MaxDelta == 2

\* validated requests for each seeded model: a short text, a system prompt
\* with a short text, a system prompt with an image
BalanceRequests ==
  { validate_request([ReqHi EXCEPT !.model = default_configs[i].model_id, !.messages = messages],
                     default_configs[i]).request
    : i \in 1..Len(default_configs),
      messages \in {<<MsgHi>>, <<MsgSystem, MsgHi>>, <<MsgSystem, MsgImage>>} }

\* a handler about to estimate the cost and call check_balance, with the
\* credential's stored balance around the estimate
InitBalance ==
  /\ workload = [name |-> "balance", api_keys |-> {"sk-a"}, requests |-> {ReqHi},
                 models |-> default_configs, handlers |-> 1, max_requests |-> 1, max_ticks |-> 0]
  /\ \E request \in BalanceRequests, delta \in (0 - MaxDelta)..MaxDelta :
       LET exact == estimate_cost(request, CHOOSE m \in {default_configs[i] : i \in 1..Len(default_configs)} :
                                             m.model_id = request.model) \div 5
           stored == IF exact + delta < 0 THEN 0 ELSE exact + delta IN
       /\ balance = [k \in DOMAIN ApiKeys |-> IF k = "sk-a" THEN stored ELSE ApiKeys[k].balance]
       /\ frame = [h \in Handlers |->
                     IF h = 1
                     THEN [IdleFrame EXCEPT !.pc = "check_balance", !.rid = 1, !.api_key = "sk-a",
                                            !.request = request, !.model_id = request.model,
                                            !.admitted = 1, !.increments = 1, !.ordinal = 1]
                     ELSE IdleFrame]
  /\ transactions = <<>>
  /\ requests = <<>>
  /\ redis = <<>>
  /\ now = 0
  /\ window_log = <<>>
  /\ next_rid = 1
  /\ ticks = 0

NextBalance == \E h \in Handlers : CheckBalance(h)

BalanceSpec == InitBalance /\ [][NextBalance]_vars

(* ------------------- PUT /v1/admin/models/{model_id} -------------------- *)
\* settings.ADMIN_API_KEY
ADMIN_API_KEY == "sk-admin"

\* the keys presented on the admin route; all carry settings.API_KEY_PREFIX,
\* so validate_api_key lets them through to validate_admin_key
AdminPresentedKeys == {ADMIN_API_KEY, "sk-a", "sk-b", "sk-missing"}

\* bodies of the PUT: one field to $set
ModelPatches ==
  {[field |-> "status", s |-> "inactive", n |-> 0],
   [field |-> "status", s |-> "active", n |-> 0],
   [field |-> "capability_level", s |-> "", n |-> 1],
   [field |-> "max_tokens", s |-> "", n |-> 4096]}

\* db.models.update_one({"model_id": model_id}, {"$set": updates})
update_one(models, model_id, updates) ==
  [i \in 1..Len(models) |->
     IF models[i].model_id # model_id THEN models[i]
     ELSE IF updates.field = "status" THEN [models[i] EXCEPT !.status = updates.s]
     ELSE IF updates.field = "capability_level" THEN [models[i] EXCEPT !.capability_level = updates.n]
     ELSE [models[i] EXCEPT !.max_tokens = updates.n]]

\* the parameters of ModelManager.update_model_config, a @staticmethod
\* declared with self: nothing is bound to self, each takes an argument
update_model_config_params == <<"self", "model_id", "updates">>

\* a handler of the admin route with its Depends(validate_admin_key) pending
InitAdmin ==
  /\ workload = [name |-> "admin", api_keys |-> AdminPresentedKeys, requests |-> {ReqHi},
                 models |-> default_configs, handlers |-> 1, max_requests |-> 1, max_ticks |-> 0]
  /\ \E api_key \in AdminPresentedKeys, updates \in ModelPatches,
        model_id \in {default_configs[i].model_id : i \in 1..Len(default_configs)} \cup {"no-such-model"} :
       frame = [h \in Handlers |->
                  IF h = 1
                  THEN [IdleFrame EXCEPT !.pc = "validate_admin_key", !.rid = 1, !.api_key = api_key,
                                         !.model_id = model_id, !.updates = updates]
                  ELSE IdleFrame]
  /\ balance = [k \in DOMAIN ApiKeys |-> ApiKeys[k].balance]
  /\ transactions = <<>>
  /\ requests = <<>>
  /\ redis = <<>>
  /\ now = 0
  /\ window_log = <<>>
  /\ next_rid = 1
  /\ ticks = 0

\* validate_admin_key: 403 unless the key is the admin key; FastAPI answers
\* the HTTPException through http_exception_handler
ValidateAdminKey(h) ==
  LET f == frame[h] IN
  /\ f.pc = "validate_admin_key"
  /\ frame' = [frame EXCEPT ![h] =
       IF f.api_key # ADMIN_API_KEY
       THEN [f EXCEPT !.pc = "failed",
                      !.error = HTTPException(403, "Admin API key required"),
                      !.status_code = http_exception_handler(HTTPException(403, "Admin API key required"))]
       ELSE [f EXCEPT !.pc = "update_model"]]
  /\ UNCHANGED <<balance, transactions, requests, redis, now, window_log, next_rid, ticks, workload>>

\* update_model: model_manager.update_model_config(model_id, updates)
\* passes two arguments; when they do not fill the parameters the call
\* raises TypeError, which the except clause turns into HTTPException 500;
\* otherwise update_one is applied and the record read back is returned
\* (None, for an unknown model_id, fails the response model: 500)
UpdateModel(h) ==
  LET f == frame[h]
      args == <<f.model_id, f.updates>>
      updated == update_one(workload.models, f.model_id, f.updates)
      e == HTTPException(500, "update_model_config() missing 1 required positional argument") IN
  /\ f.pc = "update_model"
  /\ IF Len(args) # Len(update_model_config_params)
     THEN /\ frame' = [frame EXCEPT ![h] = [f EXCEPT !.pc = "failed", !.error = e,
                                                     !.status_code = http_exception_handler(e)]]
          /\ workload' = workload
     ELSE /\ workload' = [workload EXCEPT !.models = updated]
          /\ frame' = [frame EXCEPT ![h] =
               IF \E i \in 1..Len(updated) : updated[i].model_id = f.model_id
               THEN [f EXCEPT !.pc = "done", !.status_code = 200]
               ELSE [f EXCEPT !.pc = "failed", !.status_code = 500]]
  /\ UNCHANGED <<balance, transactions, requests, redis, now, window_log, next_rid, ticks>>

NextAdmin ==
  \/ \E h \in Handlers : ValidateAdminKey(h)
  \/ \E h \in Handlers : UpdateModel(h)

AdminSpec == InitAdmin /\ [][NextAdmin]_vars

(* ===================================================================== *)
(*                              properties                               *)
(* ===================================================================== *)
Running(h) == frame[h].pc \notin {"idle", "done", "failed"}
Finished(h) == frame[h].pc \in {"done", "failed"}
\* h has passed check_rate_limits and has not finished handle_request
InFlight(h) == Running(h) /\ frame[h].admitted > 0
\* h is in (or between two attempts of) the upstream call
InUpstream(h) == frame[h].pc \in {"dispatch", "sleep"}
TransactionsOf(rid) == {j \in 1..Len(transactions) : transactions[j].rid = rid}
LogsOf(rid) == {i \in 1..Len(requests) : requests[i].rid = rid}
Limits(k) == ApiKeys[k].rate_limits

\* C1: every admission is released exactly once: a call that has finished,
\* whatever its outcome, has decremented the credential's concurrency
\* counter once for each time check_rate_limits admitted it.
C1_ReleasePerAdmit ==
  \A h \in Handlers : Finished(h) => frame[h].released = frame[h].admitted

\* C2: per credential, the handlers that are admitted and not finished never
\* number more than the concurrency limit plus the admitters that raced
\* between the concurrency read and the window increments.
C2_AdmissionBounded ==
  \A k \in DOMAIN ApiKeys :
    Cardinality({h \in Handlers : InFlight(h) /\ frame[h].api_key = k})
      <= Limits(k).concurrent_requests
         + Cardinality({h \in Handlers : Running(h) /\ frame[h].api_key = k /\ frame[h].raced})

\* C3: a request passes the concurrency check only while fewer than
\* concurrent_requests admitted requests of its credential are blocked in
\* the upstream call (otherwise it fails with 429).
C3_ConcurrencyCap ==
  [][\A h \in Handlers :
       (frame[h].pc = "check_concurrent" /\ frame'[h].pc = "incr_windows")
       => Cardinality({g \in Handlers : /\ frame[g].api_key = frame[h].api_key
                                        /\ InFlight(g) /\ InUpstream(g)})
            < Limits(frame[h].api_key).concurrent_requests]_vars

\* the quota of the window a bucket <<window, api_key, index>> belongs to
QuotaOf(bucket) ==
  IF bucket[1] = "minute" THEN Limits(bucket[2]).requests_per_minute
  ELSE IF bucket[1] = "day" THEN Limits(bucket[2]).requests_per_day
  ELSE Limits(bucket[2]).requests_per_month

\* C4: in every minute, day and month bucket of a credential, the requests
\* that passed check_rate_limits number at most the window's quota plus the
\* concurrency limit.
C4_WindowBound ==
  \A bucket \in DOMAIN window_log :
    window_log[bucket].passes <= QuotaOf(bucket) + Limits(bucket[2]).concurrent_requests

PerMinuteError == HTTPException(429, "Rate limit exceeded (per minute)")

C6_BalanceNonNegative ==
  \A k \in DOMAIN ApiKeys : balance[k] >= 0

\* C7: a request with a completed request-log entry, and a call that has
\* returned a response, has exactly one transaction entry.
C7_OneTransactionPerCompleted ==
  /\ \A i \in 1..Len(requests) :
       requests[i].status = "completed" => Cardinality(TransactionsOf(requests[i].rid)) = 1
  /\ \A h \in Handlers :
       frame[h].pc = "done" => Cardinality(TransactionsOf(frame[h].rid)) = 1

C7_Witness ==
  \E i \in 1..Len(requests) :
    /\ requests[i].status = "completed"
    /\ requests[i].retry_attempts # <<>>
    /\ Len(transactions) = 2

\* C8: a deduct writes old_balance - cost as the credential's balance, and
\* the transaction entry it appends has amount = cost, the balance it read
\* as old_balance, the balance it wrote as new_balance, and
\* new_balance + amount = old_balance.
C8_LedgerConservation ==
  [][\A h \in Handlers :
       LET f == frame[h]
           t == transactions'[Len(transactions')] IN
       /\ (f.pc = "deduct_read" /\ frame'[h].pc = "deduct_write")
            => frame'[h].old_balance = balance[f.api_key]
       /\ (f.pc = "deduct_write" /\ frame'[h].pc = "log_transaction")
            => balance'[f.api_key] = f.old_balance - f.actual_cost
       /\ (f.pc = "log_transaction" /\ frame'[h].pc = "log_request")
            => /\ Len(transactions') = Len(transactions) + 1
               /\ t.api_key = f.api_key
               /\ t.amount = f.actual_cost
               /\ t.old_balance = f.old_balance
               /\ t.new_balance = f.old_balance - f.actual_cost
               /\ t.new_balance + t.amount = t.old_balance]_vars

C8_Witness ==
  \E j \in 1..Len(transactions) :
    /\ transactions[j].amount > 0
    /\ transactions[j].old_balance # ApiKeys[transactions[j].api_key].balance

\* C9: a lone successful request with usage (p, c) lowers the balance by
\* exactly input_price * p + output_price * c (per million tokens; no image
\* cost), and leaves one transaction, a deduction, and one request log, with
\* status completed.
C9_LoneRequestCost ==
  \A h \in Handlers :
    (frame[h].pc = "done" /\ next_rid = 1) =>
      LET f == frame[h]
          pricing == get_model_config(f.model_id).pricing
          cost == pricing.input_price * f.response.prompt_tokens
                  + pricing.output_price * f.response.completion_tokens IN
      /\ balance[f.api_key] = ApiKeys[f.api_key].balance - cost
      /\ Len(transactions) = 1
      /\ transactions[1].transaction_type = "deduction"
      /\ transactions[1].amount = cost
      /\ Len(requests) = 1
      /\ requests[1].status = "completed"
      /\ requests[1].cost = cost

\* the happy path of the spec: gpt-4o, usage (5, 10), cost 5.75e-4
C9_Witness ==
  \E h \in Handlers :
    /\ frame[h].pc = "done" /\ next_rid = 1
    /\ frame[h].model_id = "gpt-4o"
    /\ frame[h].response = [prompt_tokens |-> 5, completion_tokens |-> 10]
    /\ balance[frame[h].api_key] = ApiKeys[frame[h].api_key].balance - 575

InsufficientBalance == HTTPException(402, "Insufficient balance")

\* C10: when the balance check fails and fallback_to_lower_tier is false, the
\* call raises 402 "Insufficient balance"; raising and logging it change
\* neither the balance nor the transactions, and the call has made no
\* provider call and has no transaction entry.
C10_NoFallback402 ==
  [][\A h \in Handlers :
       LET f == frame[h]
           g == frame'[h] IN
       /\ (/\ f.pc = "insufficient"
           /\ ~ApiKeys[f.api_key].retry_config.fallback_to_lower_tier
           /\ g # f)
            => /\ g.pc = "log_error" /\ g.error = InsufficientBalance
               /\ balance' = balance /\ transactions' = transactions
       /\ (f.pc = "log_error" /\ f.error = InsufficientBalance /\ g # f)
            => /\ g.pc = "failed"
               /\ balance' = balance /\ transactions' = transactions
       /\ (g.error = InsufficientBalance)
            => /\ g.provider_calls = 0
               /\ {j \in 1..Len(transactions') : transactions'[j].rid = g.rid} = {}]_vars

C10_Witness ==
  \E h \in Handlers :
    /\ frame[h].pc = "failed"
    /\ frame[h].error = InsufficientBalance
    /\ ~ApiKeys[frame[h].api_key].retry_config.fallback_to_lower_tier
    /\ balance[frame[h].api_key] < ApiKeys[frame[h].api_key].balance

\* C11: one top-level handle_request call replaces request.model by a
\* lower-tier model at most once, and its fallback recursion is never deeper
\* than one.
C11_FallbackDepth ==
  \A h \in Handlers :
    /\ frame[h].substitutions <= 1
    /\ frame[h].depth <= 1
    /\ frame[h].max_depth <= 1

\* a call that was substituted once and whose balance is insufficient for the
\* lower-tier model as well
C11_Witness ==
  \E h \in Handlers :
    /\ frame[h].pc = "failed"
    /\ frame[h].substitutions = 1
    /\ frame[h].max_depth = 1
    /\ frame[h].request.model = "gpt-4o-mini"
    /\ frame[h].error = AttributeError

NoLowerTier == HTTPException(402, "Insufficient balance and no lower tier model available")

\* an active model of db.models below the capability level of model_id
LowerActiveModels(model_id) ==
  {i \in 1..Len(Models) : /\ Models[i].status = "active"
                          /\ Models[i].capability_level < get_model_config(model_id).capability_level}

\* C12: when the balance is insufficient for the requested model, the
\* credential has fallback_to_lower_tier and an active model of a lower
\* capability level exists, the call does not end with an insufficient-balance
\* error: the model is substituted, a provider is called and the response is
\* returned.
C12_FallbackSubstitutes ==
  \A h \in Handlers :
    LET f == frame[h] IN
    (/\ Finished(h)
     /\ f.api_key \in DOMAIN ApiKeys
     /\ f.estimated_cost > 0
     /\ ~BalanceCovers(ApiKeys[f.api_key].balance, f.estimated_cost)
     /\ ApiKeys[f.api_key].retry_config.fallback_to_lower_tier
     /\ f.substitutions = 0
     /\ LowerActiveModels(f.request.model) # {})
    => (f.pc = "done" /\ f.provider_calls > 0)

\* the retry-attempts list is within max_retries, its attempt numbers grow
\* strictly, and only its last entry may be a success
RetryListOk(retry_attempts, max_retries) ==
  /\ Len(retry_attempts) <= max_retries
  /\ \A i, j \in 1..Len(retry_attempts) :
       i < j => retry_attempts[i].attempt < retry_attempts[j].attempt
  /\ \A i \in 1..Len(retry_attempts) :
       i < Len(retry_attempts) => retry_attempts[i].status # "success"

\* C13: at every point of a request, in the handler and in the request log,
\* the retry-attempts list has at most max_retries entries, strictly
\* increasing attempt numbers, and no success before its last entry.
C13_RetryCap ==
  /\ \A h \in Handlers :
       frame[h].api_key \in DOMAIN ApiKeys =>
         RetryListOk(frame[h].retry_attempts, ApiKeys[frame[h].api_key].retry_config.max_retries)
  /\ \A i \in 1..Len(requests) :
       requests[i].api_key \in DOMAIN ApiKeys =>
         RetryListOk(requests[i].retry_attempts, ApiKeys[requests[i].api_key].retry_config.max_retries)

\* a full list: max_retries - 1 failures and then the success
C13_Witness ==
  \E i \in 1..Len(requests) :
    /\ requests[i].api_key \in DOMAIN ApiKeys
    /\ Len(requests[i].retry_attempts) = ApiKeys[requests[i].api_key].retry_config.max_retries
    /\ requests[i].retry_attempts[Len(requests[i].retry_attempts)].status = "success"

\* the number of entries of a retry-attempts list with a status
CountStatus(retry_attempts, status) ==
  Cardinality({i \in 1..Len(retry_attempts) : retry_attempts[i].status = status})

\* C14: the provider is called one attempt after the other.  Before an
\* attempt the calls made equal the attempt index; a sleep lies between two
\* attempts (at least one call made, at least one left); a call that returns
\* a response after f failures has made f + 1 <= max_retries provider calls
\* and has one transaction; a call that fails after a provider call has made
\* exactly max_retries calls, all failed, and raises the upstream error.
C14_SequentialRetries ==
  \A h \in Handlers :
    LET f == frame[h]
        M == ApiKeys[f.api_key].retry_config.max_retries
        failures == CountStatus(f.retry_attempts, "failed") IN
    f.api_key \in DOMAIN ApiKeys =>
      /\ f.pc = "dispatch" => (f.provider_calls = f.attempt /\ f.attempt < M /\ failures = f.attempt)
      /\ f.pc = "sleep" => (f.provider_calls = f.attempt + 1 /\ f.provider_calls >= 1 /\ f.provider_calls < M)
      /\ f.pc = "done" => /\ f.provider_calls = failures + 1
                          /\ f.provider_calls <= M
                          /\ Cardinality(TransactionsOf(f.rid)) = 1
                          /\ f.response \in Usages
      /\ (f.pc \in {"log_error", "failed"} /\ f.provider_calls > 0)
           => /\ f.provider_calls = M
              /\ failures = M
              /\ f.error = UpstreamError

\* max_retries = 3: failed, failed, success, the response and one transaction
C14_Witness ==
  \E h \in Handlers :
    /\ frame[h].pc = "done"
    /\ frame[h].provider_calls = 3
    /\ frame[h].retry_attempts = << [attempt |-> 1, status |-> "failed"],
                                    [attempt |-> 2, status |-> "failed"],
                                    [attempt |-> 3, status |-> "success"] >>
    /\ Cardinality(TransactionsOf(frame[h].rid)) = 1

\* C15: the endpoint answers a failed call with the status of the failure:
\* 400, 401, 403, 402 or 429 as raised by the pipeline, and 500 for an
\* upstream or internal error.
C15_StatusPerFailure ==
  \A h \in Handlers :
    frame[h].pc = "failed" => frame[h].status_code = frame[h].error.code

\* C16: a top-level call that has completed has exactly one request-log
\* entry, with status completed, and one that has failed has exactly one,
\* with status failed.
C16_OneLogPerCall ==
  \A h \in Handlers :
    Finished(h) =>
      /\ Cardinality(LogsOf(frame[h].rid)) = 1
      /\ \A i \in LogsOf(frame[h].rid) :
           requests[i].status = (IF frame[h].pc = "done" THEN "completed" ELSE "failed")

\* the steps of handle_request in their order: from each position, the
\* positions the next step may lead to ("log_error" is the failure exit, and
\* "insufficient" leads back to the start only by the recursive call)
StepOrder ==
  [idle |-> {"get_api_config"},
   get_api_config |-> {"get_model_config", "log_error"},
   get_model_config |-> {"check_concurrent", "log_error"},
   check_concurrent |-> {"incr_windows", "log_error"},
   incr_windows |-> {"validate", "log_error"},
   validate |-> {"check_balance", "log_error"},
   check_balance |-> {"dispatch", "insufficient"},
   insufficient |-> {"get_api_config", "log_error"},
   dispatch |-> {"deduct_read", "sleep", "log_error"},
   sleep |-> {"dispatch"},
   deduct_read |-> {"deduct_write"},
   deduct_write |-> {"log_transaction"},
   log_transaction |-> {"log_request"},
   log_request |-> {"done"},
   log_error |-> {"failed"},
   done |-> {"idle"},
   failed |-> {"idle"}]

\* C17: handle_request takes its steps in the order credential lookup, model
\* lookup, admission, validation, estimate and balance check, dispatch, cost
\* and deduct, request log; a step that fails leads to the failure exit and
\* to no later step; a provider is called only from dispatch, which is
\* entered only after a balance check that passed; the balance changes only
\* in the deduct; the completed log entry is appended only after the
\* transaction of the deduct.
C17_StepOrder ==
  [][\A h \in Handlers :
       LET f == frame[h]
           g == frame'[h] IN
       /\ g.pc # f.pc => g.pc \in StepOrder[f.pc]
       /\ (f.pc # "idle" /\ g.pc # "idle" /\ f.error # NoError) => g.pc \in {"log_error", "failed"}
       /\ (f.pc = "validate" /\ g.pc = "check_balance") => g.error = NoError
       /\ (f.pc = "check_balance" /\ g.pc = "dispatch")
            => BalanceCovers(balance[f.api_key], g.estimated_cost)
       /\ (f.pc = "insufficient" /\ g.pc = "get_api_config") => g.substitutions = f.substitutions + 1
       /\ (g.pc # "idle" /\ g.provider_calls # f.provider_calls)
            => (f.pc = "dispatch" /\ f.admitted > 0)
       /\ (g.pc = "done" /\ f.pc # "done")
            => /\ f.pc = "log_request"
               /\ TransactionsOf(f.rid) # {}
               /\ Len(requests') = Len(requests) + 1
               /\ requests'[Len(requests')].status = "completed"
       /\ (balance' # balance \/ transactions' # transactions)
            => \E k \in Handlers : frame[k].pc \in {"deduct_write", "log_transaction"} /\ frame'[k].pc # frame[k].pc]_vars

\* a call that went through every step
C17_Witness ==
  \E h \in Handlers :
    /\ frame[h].pc = "done"
    /\ frame[h].admitted = 1
    /\ frame[h].substitutions = 0
    /\ frame[h].provider_calls = 2
    /\ \E i \in LogsOf(frame[h].rid) : requests[i].status = "completed"

\* the error handle_request raises for a key it does not accept
CredentialError(api_key) ==
  IF api_key \notin DOMAIN ApiKeys THEN HTTPException(401, "Invalid API key")
  ELSE HTTPException(403, "API key is not active")

\* C18: a call with a key that has no record fails with 401, and one with a
\* record whose status is not "active" (or absent) fails with 403; such a
\* call goes from the credential lookup to the failure exit only: it looks
\* up no model, increments no counter, validates and estimates nothing,
\* calls no provider, and leaves the counter store, the balances and the
\* transactions as they are.
C18_CredentialRejection ==
  [][\A h \in Handlers :
       LET f == frame[h]
           g == frame'[h] IN
       (/\ f.pc # "idle"
        /\ (f.api_key \notin DOMAIN ApiKeys \/ ApiKeys[f.api_key].status # "active"))
       => /\ f.pc \in {"get_api_config", "log_error", "failed"}
          /\ f.pc = "get_api_config" => (g.pc = "log_error" /\ g.error = CredentialError(f.api_key))
          /\ f.pc \in {"log_error", "failed"} => f.error = CredentialError(f.api_key)
          /\ g.pc # "idle" => g.request = f.request
          /\ f.model_id = "" /\ f.increments = 0 /\ f.admitted = 0
          /\ f.estimated_cost = 0 /\ f.provider_calls = 0
          /\ TransactionsOf(f.rid) = {}
          /\ (g.pc # f.pc) => (redis' = redis /\ balance' = balance /\ transactions' = transactions)]_vars

\* both rejections have happened: 401 for the key without a record, 403 for
\* the record without a status
C18_Witness ==
  /\ \E i \in 1..Len(requests) : requests[i].api_key = "sk-missing" /\ requests[i].error_code = 401
  /\ \E h \in Handlers : /\ frame[h].pc = "failed"
                          /\ frame[h].api_key = "sk-nostatus"
                          /\ frame[h].error = HTTPException(403, "API key is not active")

\* what the parameter rule asks of one declared parameter: the value to
\* store and whether the request is accepted
ClaimedParam(value, param_config) ==
  IF param_config.type = "none" THEN [value |-> value, ok |-> TRUE]
  ELSE IF value = Null THEN [value |-> param_config.default, ok |-> TRUE]
  ELSE IF param_config.type \in {"float", "int"} THEN
    IF ~FloatOk(value) THEN [value |-> value, ok |-> FALSE]
    ELSE LET x == IF param_config.type = "int" THEN Trunc(value.n) ELSE value.n
         IN [value |-> Num(x), ok |-> (param_config.min <= x /\ x <= param_config.max)]
  ELSE [value |-> value, ok |-> (value.t = "str" /\ value.s \in param_config.values)]

\* C19: for every declared parameter, validation puts the schema default in
\* the place of a null value and leaves a null alone when the schema has no
\* default; it coerces any other value (int by truncation, float from a
\* numeric string), rejects the request with 400 when a coerced value lies
\* outside [min, max] or an enum value is not in the declared set, and
\* otherwise stores the coerced values in the request.
C19_ValidateParams ==
  [][\A h \in Handlers :
       LET f == frame[h]
           g == frame'[h]
           allowed_params == get_model_config(f.model_id).parameters
           claimed == [p \in ParamNames |-> ClaimedParam(f.request[p], allowed_params[p])]
           accepted == \A p \in ParamNames : claimed[p].ok IN
       (f.pc = "validate" /\ g.pc # "validate")
       => IF accepted
          THEN /\ g.pc = "check_balance" /\ g.error = NoError
               /\ \A p \in ParamNames : g.request[p] = claimed[p].value
          ELSE g.pc = "log_error" /\ g.error.code = 400]_vars

\* C20: _validate_request leaves the request object of its caller as it
\* was: no null and no coerced parameter is replaced in place.
C20_ValidatePure ==
  [][\A h \in Handlers :
       (frame[h].pc = "validate" /\ frame'[h].pc # "validate")
       => frame'[h].request = frame[h].request]_vars

\* C21: validation is idempotent: validating a request that has passed
\* validation succeeds again and leaves every parameter as it is.
C21_ValidateIdempotent ==
  \A h \in Handlers :
    frame[h].pc = "check_balance" =>
      validate_request(frame[h].request, get_model_config(frame[h].model_id))
        = [request |-> frame[h].request, error |-> NoError]

\* a validated request whose values are coerced ones: a truncated
\* max_tokens, a temperature from a numeric string, an enum value
C21_Witness ==
  \E h \in Handlers :
    /\ frame[h].pc = "check_balance"
    /\ frame[h].model_id = "no-defaults"
    /\ frame[h].request.max_tokens = Num(20480)
    /\ frame[h].request.temperature = Num(15)
    /\ frame[h].request.response_format = Str("text")

\* C22: a request with an image item for a model whose capabilities do not
\* include image is rejected with 400 by the validation step.
C22_ImageCapability ==
  [][\A h \in Handlers :
       LET f == frame[h] IN
       (/\ f.pc = "validate" /\ frame'[h].pc # "validate"
        /\ \E i \in 1..Len(f.request.messages) : f.request.messages[i].images > 0
        /\ ~get_model_config(f.model_id).capabilities.image)
       => (frame'[h].pc = "log_error" /\ frame'[h].error.code = 400)]_vars

\* C23: a window counter never decreases between its creation and its
\* expiry: while a key stays live in the store its value only grows.
C23_WindowMonotone ==
  [][\A key \in DOMAIN redis :
       (/\ key[1] \in {"minute", "day", "month"}
        /\ redis[key].expires_at > now
        /\ key \in DOMAIN redis'
        /\ redis[key].expires_at > now')
       => redis'[key].value >= redis[key].value]_vars

\* a rejected request's increment stays: the minute counter of sk-a stands
\* above its quota while the rejection is being logged
C23_Witness ==
  \E h \in Handlers :
    /\ frame[h].pc = "log_error"
    /\ frame[h].error = HTTPException(429, "Rate limit exceeded (per minute)")
    /\ redis_get(<<"minute", frame[h].api_key, MinuteOfHour(now)>>)
         > ApiKeys[frame[h].api_key].rate_limits.requests_per_minute

\* C24: a successful admit increments the credential's concurrency counter
\* by exactly one.
C24_AdmitIncrementsConcurrent ==
  [][\A h \in Handlers :
       (frame[h].pc = "incr_windows" /\ frame'[h].pc = "validate")
       => LET key == <<"concurrent", frame[h].api_key, 0>> IN
          /\ key \in DOMAIN redis'
          /\ redis'[key].value = redis_get(key) + 1]_vars

\* C25: when the concurrency counter read is at or above the limit the admit
\* fails with 429 "Too many concurrent requests", and no window counter is
\* incremented and no TTL refreshed.
C25_ConcurrentReject ==
  [][\A h \in Handlers :
       LET f == frame[h] IN
       (/\ f.pc = "check_concurrent" /\ frame'[h].pc # "check_concurrent"
        /\ redis_get(<<"concurrent", f.api_key, 0>>)
             >= ApiKeys[f.api_key].rate_limits.concurrent_requests)
       => /\ frame'[h].pc = "log_error"
          /\ frame'[h].error = HTTPException(429, "Too many concurrent requests")
          /\ frame'[h].increments = f.increments
          /\ redis' = redis]_vars

\* the counter stood exactly at the limit, the call was rejected, and the
\* minute counter it found is still what it was
C25_Witness ==
  \E h \in Handlers :
    /\ frame[h].pc = "log_error"
    /\ frame[h].error = HTTPException(429, "Too many concurrent requests")
    /\ redis_get(<<"concurrent", frame[h].api_key, 0>>)
         = ApiKeys[frame[h].api_key].rate_limits.concurrent_requests
    /\ redis_get(<<"minute", frame[h].api_key, MinuteOfHour(0)>>) = 1

\* C26: once the concurrency check has passed, the minute, day and month
\* counters are each incremented by exactly one in one step; the admit fails
\* iff a post-increment value exceeds its quota, the increments stay either
\* way, and the concurrency counter is left as it was.
C26_WindowBatch ==
  [][\A h \in Handlers :
       LET f == frame[h]
           k == f.api_key
           concurrent == <<"concurrent", k, 0>>
           post(name, bucket) == redis'[<<name, k, bucket>>].value
           over == \/ post("minute", MinuteOfHour(f.now)) > Limits(k).requests_per_minute
                   \/ post("day", DateOf(f.now)) > Limits(k).requests_per_day
                   \/ post("month", MonthOf(f.now)) > Limits(k).requests_per_month IN
       (f.pc = "incr_windows" /\ frame'[h].pc # "incr_windows")
       => /\ \A key \in {<<"minute", k, MinuteOfHour(f.now)>>, <<"day", k, DateOf(f.now)>>,
                          <<"month", k, MonthOf(f.now)>>} :
               key \in DOMAIN redis' /\ redis'[key].value = redis_get(key) + 1
          /\ (concurrent \in DOMAIN redis') = (concurrent \in DOMAIN redis)
          /\ concurrent \in DOMAIN redis => redis'[concurrent] = redis[concurrent]
          /\ over => frame'[h].pc = "log_error" /\ frame'[h].error.code = 429
          /\ ~over => frame'[h].pc = "validate"]_vars

\* a call rejected by the day quota: the day counter stands above the quota
\* and the minute and month counters hold the rejected call's increment
C26_Witness ==
  \E h \in Handlers :
    /\ frame[h].pc = "log_error"
    /\ frame[h].error = HTTPException(429, "Rate limit exceeded (per day)")
    /\ redis_get(<<"day", frame[h].api_key, DateOf(0)>>) = Limits(frame[h].api_key).requests_per_day + 1
    /\ redis_get(<<"minute", frame[h].api_key, MinuteOfHour(0)>>) = 1
    /\ redis_get(<<"month", frame[h].api_key, MonthOf(0)>>) = 1

\* the estimate as stated: input tokens are the sum over the messages of
\* ceil(len / 4); in fifths of a millionth
ClaimedEstimate(request, model_config) ==
  LET CeilTokens[i \in 0..Len(request.messages)] ==
        IF i = 0 THEN 0 ELSE CeilTokens[i - 1] + (request.messages[i].strlen + 3) \div 4
      Images[i \in 0..Len(request.messages)] ==
        IF i = 0 THEN 0 ELSE Images[i - 1] + request.messages[i].images
  IN 6 * (CeilTokens[Len(request.messages)] * model_config.pricing.input_price
          + model_config.max_tokens * model_config.pricing.output_price
          + Images[Len(request.messages)] * model_config.pricing.image_input_price)

\* C27: the estimate is 1.2 times the sum of the input cost (sum over the
\* messages of ceil(len(content) / 4) tokens), the output cost (the model's
\* max_tokens) and the per-image cost.
C27_EstimateCeil ==
  \A h \in Handlers :
    frame[h].pc \in {"dispatch", "insufficient"}
    => frame[h].estimated_cost
         = ClaimedEstimate(frame[h].request, get_model_config(frame[h].model_id))

\* C28: check_balance answers true exactly when the stored balance is at
\* least the estimate, and changes neither the balance nor the counters nor
\* the transactions.
C28_CheckBalance ==
  [][\A h \in Handlers :
       (frame[h].pc = "check_balance" /\ frame'[h].pc # "check_balance")
       => /\ (frame'[h].pc = "dispatch") = (balance[frame[h].api_key] * 5 >= frame'[h].estimated_cost)
          /\ (frame'[h].pc = "insufficient") = (balance[frame[h].api_key] * 5 < frame'[h].estimated_cost)
          /\ balance' = balance
          /\ redis' = redis
          /\ transactions' = transactions
          /\ requests' = requests]_vars

\* the stored balance equals the estimate and the request goes on to dispatch
C28_Witness ==
  \E h \in Handlers :
    /\ frame[h].pc = "dispatch"
    /\ frame[h].estimated_cost > 0
    /\ balance[frame[h].api_key] * 5 = frame[h].estimated_cost

\* the models the lookup is stated to choose from: active, strictly below
\* current_level, with every capability that is true in capabilities
EligibleLower(current_level, capabilities) ==
  {i \in 1..Len(Models) :
     /\ Models[i].status = "active"
     /\ Models[i].capability_level < current_level
     /\ \A c \in CapabilityKeys : capabilities[c] => Models[i].capabilities[c]}

\* C29: the lower-tier lookup of the fallback returns an active model
\* strictly below the current level that has every capability true in the
\* argument and whose level is the highest among such models, and returns
\* none only when there is no such model.
C29_FindLowerTier ==
  [][\A h \in Handlers :
       LET f == frame[h]
           current_model == get_model_config(f.request.model)
           eligible == EligibleLower(current_model.capability_level, current_model.capabilities) IN
       (/\ f.pc = "insufficient" /\ frame'[h].pc # "insufficient"
        /\ ApiKeys[f.api_key].retry_config.fallback_to_lower_tier
        /\ current_model.capabilities.kind = "document")
       => /\ (frame'[h].pc = "log_error" /\ frame'[h].error = NoLowerTier) = (eligible = {})
          /\ eligible # {} =>
               \E i \in eligible :
                 /\ frame'[h].request.model = Models[i].model_id
                 /\ \A j \in eligible : Models[j].capability_level <= Models[i].capability_level]_vars

\* C30: every provider attempt of a dispatch, a first attempt that succeeds
\* included, is in the retry-attempts list with its attempt index from 1:
\* the list is as long as the number of provider calls made.
C30_AttemptsRecorded ==
  \A h \in Handlers :
    frame[h].pc \in {"deduct_read", "deduct_write", "log_transaction", "log_request", "done"}
    => /\ Len(frame[h].retry_attempts) = frame[h].provider_calls
       /\ \A i \in 1..Len(frame[h].retry_attempts) : frame[h].retry_attempts[i].attempt = i

\* C31: the request-log entry of a completed request carries the message
\* count and the role -> count map of the messages the caller sent.
C31_LogMessageCounts ==
  [][\A h \in Handlers :
       (frame[h].pc = "log_request" /\ frame'[h].pc = "done")
       => LET entry == requests'[Len(requests')] IN
          /\ entry.status = "completed"
          /\ entry.message_count = Len(frame[h].sent)
          /\ entry.message_types = message_types(frame[h].sent)]_vars

\* C32: a PUT on the admin model route with the admin credential applies the
\* patch to the record of that model_id and answers 200 with the record;
\* with another credential it answers 403 and no model record changes.
C32_AdminUpdate ==
  [][\A h \in Handlers :
       LET f == frame[h] IN
       /\ (f.pc = "validate_admin_key" /\ f.api_key # ADMIN_API_KEY /\ frame'[h] # f)
           => /\ frame'[h].pc = "failed" /\ frame'[h].status_code = 403
              /\ workload'.models = workload.models
       /\ (/\ f.pc = "update_model" /\ f.api_key = ADMIN_API_KEY /\ frame'[h] # f
            /\ get_model_config(f.model_id) # NoModel)
           => /\ frame'[h].pc = "done" /\ frame'[h].status_code = 200
              /\ workload'.models = update_one(workload.models, f.model_id, f.updates)]_vars

\* C33: every attempt of one request hands the provider the request of the
\* first attempt, with the same non-empty messages list: a failed attempt
\* leaves the request the pipeline holds as it was.
C33_SameRequestEachAttempt ==
  \A h \in Handlers :
    frame[h].pc \in {"dispatch", "sleep"}
    => /\ frame[h].request.messages = frame[h].sent
       /\ frame[h].request.messages # <<>>

\* the sum of the amounts of the transaction entries of credential k
Deducted(k) ==
  LET sum[j \in 0..Len(transactions)] ==
        IF j = 0 THEN 0
        ELSE sum[j - 1] + (IF transactions[j].api_key = k THEN transactions[j].amount ELSE 0)
  IN sum[Len(transactions)]

\* C34: once every concurrent call on a credential has finished, its balance
\* is the initial balance minus the amounts of all its transaction entries:
\* no deduction is lost when two deduct_balance calls interleave.
C34_NoLostDeduction ==
  (\A h \in Handlers : ~Running(h))
  => \A k \in DOMAIN ApiKeys : balance[k] = ApiKeys[k].balance - Deducted(k)

\* C35: one top-level handle_request call increments the credential's
\* minute, day and month counters at most once each, a call that falls back
\* to a lower-tier model included.
C35_OneIncrementPerCall ==
  \A h \in Handlers : frame[h].increments <= 1

\* the distinct capability levels of the catalogue
CapabilityLevels == {Models[i].capability_level : i \in 1..Len(Models)}

\* C36: every handle_request call terminates with a response or an error;
\* each fallback recursion replaces request.model by a model of strictly
\* lower capability_level, the recursion is no deeper than the number of
\* distinct capability levels, and no more than max_retries provider calls
\* are made.
C36_Terminates ==
  /\ \A h \in Handlers : Running(h) ~> Finished(h)
  /\ [](\A h \in Handlers :
          /\ frame[h].max_depth <= Cardinality(CapabilityLevels)
          /\ frame[h].api_key \in DOMAIN ApiKeys
               => frame[h].provider_calls <= ApiKeys[frame[h].api_key].retry_config.max_retries)
  /\ [][\A h \in Handlers :
          frame'[h].substitutions > frame[h].substitutions
          => get_model_config(frame'[h].request.model).capability_level
               < get_model_config(frame[h].request.model).capability_level]_vars

\* a call that fell back to a lower-tier model, made max_retries provider
\* calls there, and has ended
C36_Witness ==
  \E h \in Handlers :
    /\ Finished(h)
    /\ frame[h].substitutions = 1
    /\ frame[h].provider_calls = ApiKeys[frame[h].api_key].retry_config.max_retries

\* C37: a call that ends in a failure raised before the provider returned a
\* response leaves the balance as it is and appends no transaction entry:
\* the steps that lead to or log a failure change neither, only a handler
\* that holds a provider response and is inside deduct_balance does, and a
\* failed call has no transaction entry.
C37_FailureLeavesLedger ==
  [][\A h \in Handlers :
       LET f == frame[h]
           g == frame'[h] IN
       g # f =>
         /\ g.pc \in {"log_error", "failed"}
              => /\ balance' = balance
                 /\ transactions' = transactions
                 /\ \A j \in 1..Len(transactions') : transactions'[j].rid # g.rid
         /\ (balance' # balance \/ transactions' # transactions)
              => /\ f.pc \in {"deduct_write", "log_transaction"}
                 /\ f.provider_calls > 0
                 /\ f.error = NoError]_vars

\* a call that failed upstream on every attempt; balance and transactions
\* are as at the start
C37_Witness ==
  \E h \in Handlers :
    /\ frame[h].pc = "failed"
    /\ frame[h].error = UpstreamError
    /\ frame[h].provider_calls = ApiKeys[frame[h].api_key].retry_config.max_retries
    /\ balance[frame[h].api_key] = ApiKeys[frame[h].api_key].balance
    /\ transactions = <<>>

\* the rejections that come before admission
RejectedBeforeAdmission(e) ==
  e \in {HTTPException(401, "Invalid API key"), HTTPException(403, "API key is not active"),
         HTTPException(400, "Model not found")}

\* C38: a request rejected before admission (credential missing or not
\* active, model not in the catalogue) leaves the counter store as it is:
\* the rejecting step and the logging of the rejection write no key, and the
\* call has incremented no window counter.
C38_RejectionLeavesCounters ==
  [][\A h \in Handlers :
       LET f == frame[h]
           g == frame'[h] IN
       (g # f /\ g.pc \in {"log_error", "failed"} /\ g.depth = 0 /\ RejectedBeforeAdmission(g.error))
       => /\ redis' = redis
          /\ g.increments = 0
          /\ g.admitted = 0]_vars

\* a request for an unknown model rejected after an earlier request of the
\* same credential was admitted: the minute counter still holds 1
C38_Witness ==
  \E h \in Handlers :
    /\ frame[h].pc = "failed"
    /\ frame[h].error = HTTPException(400, "Model not found")
    /\ redis_get(<<"minute", frame[h].api_key, MinuteOfHour(now)>>) = 1

\* C39: no request is dispatched to a provider for a model whose status is
\* not active, whether request.model names it or the fallback chose it.
C39_NoInactiveDispatch ==
  \A h \in Handlers :
    (InUpstream(h) \/ frame[h].provider_calls > 0)
    => get_model_config(frame[h].request.model).status = "active"

\* handler h takes the step (a concurrency check may also flag the frames
\* of other handlers of the same credential as raced)
Stepping(h) == [frame'[h] EXCEPT !.raced = FALSE] # [frame[h] EXCEPT !.raced = FALSE]

\* the call of handler h is the only one its credential has made so far
OnlyCallOfCredential(h) ==
  /\ \A g \in Handlers \ {h} : frame[g].pc = "idle" \/ frame[g].api_key # frame[h].api_key
  /\ \A i \in 1..Len(requests) : requests[i].api_key = frame[h].api_key => requests[i].rid = frame[h].rid
  /\ \A j \in 1..Len(transactions) :
       transactions[j].api_key = frame[h].api_key => transactions[j].rid = frame[h].rid

\* C40: credentials are isolated.  A step of a call made with credential A
\* writes no counter, balance or transaction entry of another credential,
\* and the outcome of a call that is the only one of its credential is the
\* outcome it has when alone, whatever calls other credentials make at the
\* same time: it is not rate limited, and it is charged its own cost against
\* its own initial balance, or charged nothing when it fails.
C40_CredentialIsolation ==
  [][\A h \in Handlers :
       LET f == frame[h]
           A == frame'[h].api_key IN
       Stepping(h) =>
         /\ \A key \in DOMAIN redis \cup DOMAIN redis' :
              key[2] # A => /\ key \in DOMAIN redis /\ key \in DOMAIN redis'
                            /\ redis'[key] = redis[key]
         /\ \A k \in DOMAIN balance : k # A => balance'[k] = balance[k]
         /\ \/ transactions' = transactions
            \/ /\ Len(transactions') = Len(transactions) + 1
               /\ SubSeq(transactions', 1, Len(transactions)) = transactions
               /\ transactions'[Len(transactions')].api_key = A
         /\ (A \in DOMAIN ApiKeys /\ (Finished(h) /\ OnlyCallOfCredential(h))')
              => /\ frame'[h].error.code # 429
                 /\ frame'[h].pc = "done"
                      => /\ balance'[A] = ApiKeys[A].balance - frame'[h].actual_cost
                         /\ \A j \in 1..Len(transactions') :
                              transactions'[j].rid = frame'[h].rid
                              => transactions'[j].old_balance = ApiKeys[A].balance
                 /\ frame'[h].pc = "failed" => balance'[A] = ApiKeys[A].balance]_vars

\* two calls with different credentials ran at the same time and were both
\* charged; the later call's transaction entry was appended first
C40_Witness ==
  \E h1, h2 \in Handlers :
    /\ frame[h1].pc = "done" /\ frame[h2].pc = "done"
    /\ frame[h1].api_key # frame[h2].api_key
    /\ frame[h1].actual_cost > 0 /\ frame[h2].actual_cost > 0
    /\ frame[h1].rid < frame[h2].rid
    /\ Len(transactions) = 2
    /\ transactions[1].rid = frame[h2].rid

====
